---- MODULE Spec2Model ----
(***************************************************************************)
(* Concurrency primitives of rtlib (src/src/rtl_thread.c):                  *)
(*   - the reader-writer lock   rtl_rw_lock_*                               *)
(*   - the bounded queue        rtl_pc_queue_*                              *)
(*   - the barrier              rtl_barrier_*                               *)
(* Every atomic operation (rtl_atomic_load / store / fetch_add / fetch_sub) *)
(* and every mutex operation of the source is one step of the thread that   *)
(* executes it; threads interleave between steps.                           *)
(***************************************************************************)
EXTENDS Integers, Sequences, FiniteSets, TLC

\* ------------------------------------------------------------------------
\* Bounds of the model
\* ------------------------------------------------------------------------
\* reader-writer lock: reader threads (bound) and writer threads
\* (NUM_WRITERS of test_reader_writer_pattern)
NumReaders == 2
NumWriters == 2
\* operations of each thread of the reader-writer test (bound)
OpsPerThread == 1

Readers == 1..NumReaders
Writers == (NumReaders + 1)..(NumReaders + NumWriters)
RWThreads == Readers \cup Writers

\* value of a mutex that no thread holds
NoThread == 0

\* operations left to a thread that never stops locking and unlocking
Forever == -1

\* bounded queue: producer and consumer threads, largest capacity, number of
\* payload handles each producer has to enqueue
NumProducers == 3
NumConsumers == 2
MaxCapacity == 2
ItemsPerProducer == 1

Producers == 1..NumProducers
Consumers == (NumProducers + 1)..(NumProducers + NumConsumers)
QThreads == Producers \cup Consumers

\* content of a buffer slot or of an output parameter never written
NoValue == 0

\* lock-free queue: producer threads, consumer threads (NUM_CONSUMERS of
\* test_lockfree_queue_mpmc), largest capacity, number of enqueue calls
NumMQProducers == 2
NumMQConsumers == 2
MQMaxCapacity == 2
MQMaxEnqueues == 2

\* single-producer single-consumer lock-free queue: its two threads
\* (test_lockfree_queue_spsc), largest capacity, number of payloads the
\* producer has to enqueue
SQProducer == 1
SQConsumer == 2
SQMaxCapacity == 3
SQItems == 3

SQThreads == {SQProducer, SQConsumer}

\* mutex: worker threads, critical sections each of them runs
NumMXThreads == 3
MXIters == 2

MXThreads == 1..NumMXThreads

\* the threads of test_complex_synchronization_patterns and the
\* iterations each runs
NumCXThreads == 3
CXIters == 1
CXThreads == 1..NumCXThreads

\* the mutexes[3] of test_complex_synchronization_patterns
NumMutexes == 3
Mutexes == 0..(NumMutexes - 1)

\* message passing through two atomic words: the writer thread
\* (ordering_thread), reader threads, largest value passed
MPWriter == 1
NumMPReaders == 3
MPMaxValue == 2

MPReaders == (MPWriter + 1)..(MPWriter + NumMPReaders)
MPThreads == {MPWriter} \cup MPReaders

\* atomic word: threads operating on it, calls each of them makes, largest
\* operand of a call
NumATThreads == 2
ATCalls == 2
ATMaxOperand == 1

ATThreads == 1..NumATThreads
ATOperands == 0..ATMaxOperand

\* barrier: threads, largest expected_count, wait calls per thread
NumBThreads == 3
MaxExpected == 4
MaxCalls == 2

BThreads == 1..NumBThreads

VARIABLES
  \* rtl_rw_lock_t
  rw_mutex,          \* lock->mutex: the thread holding it, or NoThread
  readers,           \* lock->readers
  writers_waiting,   \* lock->writers_waiting
  writer_active,     \* lock->writer_active
  rw_pc,             \* position of each thread in rtl_rw_lock_* code
  rw_left,           \* operations each thread still has to perform
                     \* (rw_thread: data->operations - i), or Forever
  \* rtl_pc_queue_t
  q_mutex,           \* queue->mutex: the thread holding it, or NoThread
  size,              \* queue->size
  capacity,          \* queue->capacity
  head,              \* queue->head
  tail,              \* queue->tail
  buffer,            \* queue->buffer[0 .. capacity-1]
  q_pc,              \* position of each thread in rtl_pc_queue_* code
  q_arg,             \* the `value` argument of a thread's enqueue call
  q_idx,             \* the local `tail` / `head` of enqueue / dequeue
  q_out,             \* *value, the output parameter of a dequeue call
  q_resp,            \* the call that returned in the latest step, if any:
                     \* its thread, operation, return value and payload
  q_seen,            \* the size a call loaded in its full / empty test
  q_obs,             \* result of an is_empty / is_full / size call made in
                     \* the current state (a snapshot: stale after any step)
  produced,          \* number of payloads each producer has enqueued so far
  enqOrder,          \* payloads of the enqueue calls that returned 1, in order
  deqOrder,          \* payloads of the dequeue calls that returned 1, in order
  \* rtl_barrier_t
  b_mutex,           \* barrier->mutex: the thread holding it, or NoThread
  count,             \* barrier->count
  generation,        \* barrier->generation
  expected_count,    \* barrier->expected_count
  b_pc,              \* position of each thread in rtl_barrier_wait
  b_gen,             \* the local `generation` of a thread's wait call
  b_calls,           \* number of wait calls each thread has returned from
  arrivals,          \* per generation, the number of calls that captured it
  \* rtl_lockfree_mpmc_queue_t
  mq_head,           \* queue->head: index of the next payload to take
  mq_tail,           \* queue->tail: index of the next slot to claim
  mq_capacity,       \* queue->capacity
  mq_buffer,         \* queue->buffer[0 .. capacity-1]
  mq_ready,          \* per slot: marked ready (payload written, not yet taken)
  mq_pc,             \* position of each thread in rtl_lockfree_mpmc_queue_*
  mq_arg,            \* the `value` argument of a thread's enqueue call
  mq_idx,            \* the index a call loaded from tail / head
  mq_out,            \* *value, the output parameter of a dequeue call
  mq_beaten,         \* whether another thread's compare-and-swap on the index
                     \* succeeded since this call loaded it
  mq_resp,           \* the call that returned in the latest step, if any
  mq_calls,          \* number of enqueue calls made so far, each with a
                     \* fresh payload
  mq_accepted,       \* per payload, how often an enqueue of it has returned 1
  mq_taken,          \* per payload, how often a dequeue has returned it
  \* rtl_lockfree_queue_t
  sq_head,           \* queue->head
  sq_tail,           \* queue->tail
  sq_capacity,       \* queue->capacity
  sq_buffer,         \* queue->buffer[0 .. capacity-1] as memory holds it
  sq_wbuf,           \* plain stores of the producer that have not reached
                     \* memory yet: <<slot, payload>> pairs, oldest first
  sq_pc,             \* position of each thread in rtl_lockfree_queue_*
  sq_arg,            \* the `value` argument of the enqueue call
  sq_idx,            \* the tail / head a call loaded
  sq_out,            \* *value, the output parameter of the dequeue call
  sq_resp,           \* the call that returned in the latest step, if any
  sq_enq,            \* payloads of the enqueue calls that returned 1, in order
  sq_deq,            \* payloads of the dequeue calls that returned 1, in order
  \* rtl_mutex_t and the counter it protects
  mx_recursive,      \* the build: TRUE where rtl_mutex_t is a CRITICAL_SECTION
                     \* (recursive), FALSE where it is a default pthread mutex
  mx_owner,          \* the thread holding the mutex, or NoThread
  mx_depth,          \* number of lock calls of the owner not yet unlocked
  mx_pc,             \* position of each thread in its critical section
  mx_tmp,            \* the item_count a thread read for its increment
  item_count,        \* safe_list->item_count
  mx_iter,           \* critical sections each thread has completed
  \* the two atomic words of test_memory_ordering
  mp_mem,            \* memory: the words `data` and `flag`
  mp_wbuf,           \* plain stores of the writer that have not reached
                     \* memory yet: <<word, value>> pairs, oldest first
  mp_value,          \* the value the writer passes through `data`
  mp_pc,             \* position of each thread in ordering_thread /
                     \* reader_thread
  mp_flag,           \* the flag each reader loaded last
  mp_data,           \* the data each reader loaded
  \* one atomic word and the threads that operate on it
  at_word,           \* *ptr
  at_init,           \* *ptr before the first call
  at_prog,           \* what the threads do: "count" (every call is
                     \* rtl_atomic_fetch_add(ptr, 1)) or "mixed" (any calls)
  at_left,           \* calls each thread still has to make
  at_last,           \* the latest call: operation, operands, *ptr before it
                     \* and the value returned
  at_rets,           \* program "count": the values returned so far, one
                     \* entry <<thread, calls left, value>> per call
  \* further worker threads of the tests
  successful_updates,\* race_condition_thread: compare-exchange calls of
                     \* each thread that returned true
  mutexes            \* an array of mutexes: the thread holding each, or
                     \* NoThread

rwvars == <<rw_mutex, readers, writers_waiting, writer_active, rw_pc,
            rw_left>>

qshared == <<size, capacity, head, tail, buffer>>
qlocal == <<q_arg, q_idx, q_out, q_seen>>
qhist == <<produced, enqOrder, deqOrder>>
qvars == <<q_mutex, qshared, q_pc, qlocal, q_resp, q_obs, qhist>>

bvars == <<b_mutex, count, generation, expected_count, b_pc, b_gen, b_calls,
           arrivals>>

mqshared == <<mq_head, mq_tail, mq_capacity, mq_buffer, mq_ready>>
mqlocal == <<mq_arg, mq_idx, mq_out>>
mqhist == <<mq_calls, mq_accepted, mq_taken>>
mqvars == <<mqshared, mq_pc, mqlocal, mq_beaten, mq_resp, mqhist>>

sqshared == <<sq_head, sq_tail, sq_capacity, sq_buffer, sq_wbuf>>
sqlocal == <<sq_arg, sq_idx, sq_out>>
sqhist == <<sq_enq, sq_deq>>
sqvars == <<sqshared, sq_pc, sqlocal, sq_resp, sqhist>>

mxvars == <<mx_recursive, mx_owner, mx_depth, mx_pc, mx_tmp, item_count,
            mx_iter>>

\* the lock-free queue, the mutex and the atomic words on their own
mpvars == <<mp_mem, mp_wbuf, mp_value, mp_pc, mp_flag, mp_data>>

atvars == <<at_word, at_init, at_prog, at_left, at_last, at_rets>>

wkvars == <<successful_updates, mutexes>>

lfvars == <<sqvars, mxvars, mpvars, atvars, wkvars>>

vars == <<rwvars, qvars, bvars, mqvars, lfvars>>

\* what the operations of one primitive leave alone
rwOther == <<qvars, bvars, mqvars, lfvars>>
qOther == <<rwvars, bvars, mqvars, lfvars>>
bOther == <<rwvars, qvars, mqvars, lfvars>>
mqOther == <<rwvars, qvars, bvars, lfvars>>
baseOther == <<rwvars, qvars, bvars, mqvars>>
lockOther == <<baseOther, wkvars>>
sqOther == <<lockOther, mxvars, mpvars, atvars>>
mxOther == <<lockOther, sqvars, mpvars, atvars>>
mpOther == <<lockOther, sqvars, mxvars, atvars>>
atOther == <<lockOther, sqvars, mxvars, mpvars>>

\* ------------------------------------------------------------------------
\* Atomic word operations (include/rtl_thread.h)
\* ------------------------------------------------------------------------
\* variant of the compare-and-swap builtin: newval is written whatever the
\* word holds
sync_val_compare_and_swap_blind(word, oldval, newval) ==
  [old |-> word, word |-> newval]

\* __sync_val_compare_and_swap(ptr, oldval, newval) /
\* InterlockedCompareExchange(ptr, newval, oldval) as rtl_atomic_load calls
\* it: newval is written if the word holds oldval, and the value found is
\* returned
sync_val_compare_and_swap(word, oldval, newval) ==
  [old |-> word, word |-> IF word = oldval THEN newval ELSE word]

\* variant of rtl_atomic_load: the comparand 0 is returned instead of the
\* value the compare-and-swap found
rtl_atomic_load_comparand(word) == 0

\* rtl_atomic_load: compare-and-swap of 0 with 0, returns the current value
rtl_atomic_load(word) == IF word = 0 THEN 0 ELSE word

\* variant of rtl_atomic_fetch_add: returns the value after the addition
\* (__sync_add_and_fetch)
rtl_atomic_fetch_add_ret_new(word, value) == word + value

\* rtl_atomic_fetch_add / rtl_atomic_fetch_sub: the value returned
rtl_atomic_fetch_add_ret(word, value) == word

rtl_atomic_fetch_sub_ret(word, value) == word

\* variant of rtl_atomic_compare_exchange: expected and desired are passed
\* to the compare-and-swap in the wrong order
rtl_atomic_compare_exchange_swapped(word, expected, desired) ==
  [old |-> word, word |-> IF word = desired THEN expected ELSE word]

\* rtl_atomic_compare_exchange(ptr, expected, desired): the value returned
\* (*ptr before the call) and the content of *ptr afterwards
rtl_atomic_compare_exchange(word, expected, desired) ==
  [old |-> word, word |-> IF word = expected THEN desired ELSE word]

\* rtl_atomic_fetch_add / rtl_atomic_fetch_sub: the new value of the word
rtl_atomic_fetch_add(word, value) == word + value

\* a fetch_sub that does not subtract
rtl_atomic_fetch_sub_noop(word, value) == word

rtl_atomic_fetch_sub(word, value) == word - value

\* Plain (non-atomic) stores of a thread wait in its store buffer, a sequence
\* of <<location, value>> pairs, until the hardware writes them to memory or
\* a barrier forces them out.  Drain(mem, wbuf): memory after all of them,
\* oldest first, have been written.
RECURSIVE Drain(_, _)
Drain(mem, wbuf) ==
  IF wbuf = <<>>
    THEN mem
    ELSE Drain([mem EXCEPT ![wbuf[1][1]] = wbuf[1][2]], Tail(wbuf))

\* the entries of wbuf the hardware may write to memory next: any entry
\* with no older entry for the same location
Drainable(wbuf) ==
  {i \in 1..Len(wbuf) : \A j \in 1..(i - 1) : wbuf[j][1] # wbuf[i][1]}

\* wbuf without its i-th entry
DropAt(wbuf, i) == SubSeq(wbuf, 1, i - 1) \o SubSeq(wbuf, i + 1, Len(wbuf))

\* variant of __sync_synchronize: no barrier is emitted
sync_synchronize_missing(mem, wbuf) == [mem |-> mem, wbuf |-> wbuf]

\* __sync_synchronize(): a full barrier; every plain store the thread has
\* made before it is in memory when it returns
sync_synchronize(mem, wbuf) == [mem |-> Drain(mem, wbuf), wbuf |-> <<>>]

\* variant of rtl_atomic_store: *ptr = value without the barrier before it
rtl_atomic_store_unfenced(mem, wbuf, value) ==
  [mem |-> mem, wbuf |-> wbuf, word |-> value]

\* rtl_atomic_store(ptr, value): barrier, *ptr = value, barrier.  The
\* thread's earlier plain stores are in memory before *ptr changes.
rtl_atomic_store(mem, wbuf, value) ==
  LET before == sync_synchronize(mem, wbuf)
  IN  [mem |-> before.mem, wbuf |-> before.wbuf, word |-> value]

\* variant of rtl_atomic_compare_exchange_bool: expected and desired are
\* passed to the compare-and-swap in the wrong order
rtl_atomic_compare_exchange_bool_swapped(word, expected, desired) ==
  [ok |-> word = desired, word |-> IF word = desired THEN expected ELSE word]

\* variant of rtl_atomic_compare_exchange_bool: the exchange is reported as
\* done even when *ptr was not expected
rtl_atomic_compare_exchange_bool_always(word, expected, desired) ==
  [ok |-> TRUE, word |-> IF word = expected THEN desired ELSE word]

\* variant of rtl_atomic_compare_exchange_bool: the comparison is reported
\* but desired is never stored
rtl_atomic_compare_exchange_bool_no_store(word, expected, desired) ==
  [ok |-> word = expected, word |-> word]

\* rtl_atomic_compare_exchange_bool(ptr, expected, desired): whether *ptr was
\* expected, and the content of *ptr afterwards
rtl_atomic_compare_exchange_bool(word, expected, desired) ==
  [ok |-> word = expected, word |-> IF word = expected THEN desired ELSE word]

\* ------------------------------------------------------------------------
\* Reader-writer lock
\* ------------------------------------------------------------------------
\* rtl_rw_lock_init, and threads that go on locking and unlocking for ever
RWInit ==
  /\ rw_mutex = NoThread
  /\ readers = 0
  /\ writers_waiting = 0
  /\ writer_active = 0
  /\ rw_pc = [t \in RWThreads |-> "idle"]
  /\ rw_left = [t \in RWThreads |-> Forever]

RWGoto(t, loc) == rw_pc' = [rw_pc EXCEPT ![t] = loc]

\* a reader thread calls rtl_rw_lock_read_lock
read_lock_call(t) ==
  /\ rw_left[t] # 0
  /\ t \in Readers
  /\ rw_pc[t] = "idle"
  /\ RWGoto(t, "rl_lock")
  /\ UNCHANGED <<rw_mutex, readers, writers_waiting, writer_active,
                 rw_left, rwOther>>

\* rtl_mutex_lock(&lock->mutex) at the head of read_lock and in its loop
rl_mutex_lock(t) ==
  /\ rw_pc[t] \in {"rl_lock", "rl_relock"}
  /\ rw_mutex = NoThread
  /\ rw_mutex' = t
  /\ RWGoto(t, "rl_load_wa")
  /\ UNCHANGED <<readers, writers_waiting, writer_active, rw_left, rwOther>>

\* while (rtl_atomic_load(&lock->writer_active) > 0 || ...
rl_load_wa(t) ==
  /\ rw_pc[t] = "rl_load_wa"
  /\ IF rtl_atomic_load(writer_active) > 0
       THEN RWGoto(t, "rl_loop_unlock")
       ELSE RWGoto(t, "rl_load_ww")
  /\ UNCHANGED <<rw_mutex, readers, writers_waiting, writer_active,
                 rw_left, rwOther>>

\* variant of rl_load_ww: the reader does not look at writers_waiting
rl_load_ww_ignore(t) ==
  /\ rw_pc[t] = "rl_load_ww"
  /\ RWGoto(t, "rl_inc")
  /\ UNCHANGED <<rw_mutex, readers, writers_waiting, writer_active,
                 rw_left, rwOther>>

\* ... || rtl_atomic_load(&lock->writers_waiting) > 0)
rl_load_ww(t) ==
  /\ rw_pc[t] = "rl_load_ww"
  /\ IF rtl_atomic_load(writers_waiting) > 0
       THEN RWGoto(t, "rl_loop_unlock")
       ELSE RWGoto(t, "rl_inc")
  /\ UNCHANGED <<rw_mutex, readers, writers_waiting, writer_active,
                 rw_left, rwOther>>

\* loop body: rtl_mutex_unlock(&lock->mutex)
rl_loop_unlock(t) ==
  /\ rw_pc[t] = "rl_loop_unlock"
  /\ rw_mutex' = NoThread
  /\ RWGoto(t, "rl_sleep")
  /\ UNCHANGED <<readers, writers_waiting, writer_active, rw_left, rwOther>>

\* loop body: rtl_thread_sleep(1)
rl_sleep(t) ==
  /\ rw_pc[t] = "rl_sleep"
  /\ RWGoto(t, "rl_relock")
  /\ UNCHANGED <<rw_mutex, readers, writers_waiting, writer_active,
                 rw_left, rwOther>>

\* rtl_atomic_fetch_add(&lock->readers, 1)
rl_inc(t) ==
  /\ rw_pc[t] = "rl_inc"
  /\ readers' = rtl_atomic_fetch_add(readers, 1)
  /\ RWGoto(t, "rl_unlock")
  /\ UNCHANGED <<rw_mutex, writers_waiting, writer_active, rw_left, rwOther>>

\* rtl_mutex_unlock(&lock->mutex); read_lock returns
rl_unlock(t) ==
  /\ rw_pc[t] = "rl_unlock"
  /\ rw_mutex' = NoThread
  /\ RWGoto(t, "reading")
  /\ UNCHANGED <<readers, writers_waiting, writer_active, rw_left, rwOther>>

\* rtl_rw_lock_read_unlock, called by a thread that holds a read lock
rtl_rw_lock_read_unlock(t) ==
  /\ rw_pc[t] = "reading"
  /\ readers' = rtl_atomic_fetch_sub(readers, 1)
  /\ RWGoto(t, "idle")
  /\ rw_left' = [rw_left EXCEPT ![t] = IF @ > 0 THEN @ - 1 ELSE @]
  /\ UNCHANGED <<rw_mutex, writers_waiting, writer_active, rwOther>>

\* a writer thread calls rtl_rw_lock_write_lock
write_lock_call(t) ==
  /\ rw_left[t] # 0
  /\ t \in Writers
  /\ rw_pc[t] = "idle"
  /\ RWGoto(t, "wl_lock")
  /\ UNCHANGED <<rw_mutex, readers, writers_waiting, writer_active,
                 rw_left, rwOther>>

\* rtl_mutex_lock(&lock->mutex) at the head of write_lock
wl_mutex_lock(t) ==
  /\ rw_pc[t] = "wl_lock"
  /\ rw_mutex = NoThread
  /\ rw_mutex' = t
  /\ RWGoto(t, "wl_register")
  /\ UNCHANGED <<readers, writers_waiting, writer_active, rw_left, rwOther>>

\* rtl_atomic_fetch_add(&lock->writers_waiting, 1)
wl_register(t) ==
  /\ rw_pc[t] = "wl_register"
  /\ writers_waiting' = rtl_atomic_fetch_add(writers_waiting, 1)
  /\ RWGoto(t, "wl_load_r")
  /\ UNCHANGED <<rw_mutex, readers, writer_active, rw_left, rwOther>>

\* variant of wl_load_r: the writer does not wait for the readers to leave
wl_load_r_ignore(t) ==
  /\ rw_pc[t] = "wl_load_r"
  /\ RWGoto(t, "wl_load_wa")
  /\ UNCHANGED <<rw_mutex, readers, writers_waiting, writer_active,
                 rw_left, rwOther>>

\* while (rtl_atomic_load(&lock->readers) > 0 || ...
wl_load_r(t) ==
  /\ rw_pc[t] = "wl_load_r"
  /\ IF rtl_atomic_load(readers) > 0
       THEN RWGoto(t, "wl_loop_unlock")
       ELSE RWGoto(t, "wl_load_wa")
  /\ UNCHANGED <<rw_mutex, readers, writers_waiting, writer_active,
                 rw_left, rwOther>>

\* variant of wl_load_wa: the writer does not wait for the active writer
wl_load_wa_ignore(t) ==
  /\ rw_pc[t] = "wl_load_wa"
  /\ RWGoto(t, "wl_unregister")
  /\ UNCHANGED <<rw_mutex, readers, writers_waiting, writer_active,
                 rw_left, rwOther>>

\* ... || rtl_atomic_load(&lock->writer_active) > 0)
wl_load_wa(t) ==
  /\ rw_pc[t] = "wl_load_wa"
  /\ IF rtl_atomic_load(writer_active) > 0
       THEN RWGoto(t, "wl_loop_unlock")
       ELSE RWGoto(t, "wl_unregister")
  /\ UNCHANGED <<rw_mutex, readers, writers_waiting, writer_active,
                 rw_left, rwOther>>

\* loop body: rtl_mutex_unlock(&lock->mutex)
wl_loop_unlock(t) ==
  /\ rw_pc[t] = "wl_loop_unlock"
  /\ rw_mutex' = NoThread
  /\ RWGoto(t, "wl_sleep")
  /\ UNCHANGED <<readers, writers_waiting, writer_active, rw_left, rwOther>>

\* loop body: rtl_thread_sleep(1)
wl_sleep(t) ==
  /\ rw_pc[t] = "wl_sleep"
  /\ RWGoto(t, "wl_relock")
  /\ UNCHANGED <<rw_mutex, readers, writers_waiting, writer_active,
                 rw_left, rwOther>>

\* loop body: rtl_mutex_lock(&lock->mutex)
wl_mutex_relock(t) ==
  /\ rw_pc[t] = "wl_relock"
  /\ rw_mutex = NoThread
  /\ rw_mutex' = t
  /\ RWGoto(t, "wl_load_r")
  /\ UNCHANGED <<readers, writers_waiting, writer_active, rw_left, rwOther>>

\* variant of wl_unregister: the writer forgets that it no longer waits
wl_unregister_skip(t) ==
  /\ rw_pc[t] = "wl_unregister"
  /\ RWGoto(t, "wl_set_active")
  /\ UNCHANGED <<rw_mutex, readers, writers_waiting, writer_active, rw_left,
                 rwOther>>

\* rtl_atomic_fetch_sub(&lock->writers_waiting, 1)
wl_unregister(t) ==
  /\ rw_pc[t] = "wl_unregister"
  /\ writers_waiting' = rtl_atomic_fetch_sub(writers_waiting, 1)
  /\ RWGoto(t, "wl_set_active")
  /\ UNCHANGED <<rw_mutex, readers, writer_active, rw_left, rwOther>>

\* rtl_atomic_store(&lock->writer_active, 1)
wl_set_active(t) ==
  /\ rw_pc[t] = "wl_set_active"
  /\ writer_active' = 1
  /\ RWGoto(t, "wl_unlock")
  /\ UNCHANGED <<rw_mutex, readers, writers_waiting, rw_left, rwOther>>

\* rtl_mutex_unlock(&lock->mutex); write_lock returns
wl_unlock(t) ==
  /\ rw_pc[t] = "wl_unlock"
  /\ rw_mutex' = NoThread
  /\ RWGoto(t, "writing")
  /\ UNCHANGED <<readers, writers_waiting, writer_active, rw_left, rwOther>>

\* rtl_rw_lock_write_unlock, called by the thread that holds the write lock
rtl_rw_lock_write_unlock(t) ==
  /\ rw_pc[t] = "writing"
  /\ writer_active' = 0
  /\ RWGoto(t, "idle")
  /\ rw_left' = [rw_left EXCEPT ![t] = IF @ > 0 THEN @ - 1 ELSE @]
  /\ UNCHANGED <<rw_mutex, readers, writers_waiting, rwOther>>

rtl_rw_lock_read_lock(t) ==
  \/ read_lock_call(t)
  \/ rl_mutex_lock(t)
  \/ rl_load_wa(t)
  \/ rl_load_ww(t)
  \/ rl_loop_unlock(t)
  \/ rl_sleep(t)
  \/ rl_inc(t)
  \/ rl_unlock(t)

rtl_rw_lock_write_lock(t) ==
  \/ write_lock_call(t)
  \/ wl_mutex_lock(t)
  \/ wl_register(t)
  \/ wl_load_r(t)
  \/ wl_load_wa(t)
  \/ wl_loop_unlock(t)
  \/ wl_sleep(t)
  \/ wl_mutex_relock(t)
  \/ wl_unregister(t)
  \/ wl_set_active(t)
  \/ wl_unlock(t)

RWNext ==
  \E t \in RWThreads :
    \/ rtl_rw_lock_read_lock(t)
    \/ rtl_rw_lock_read_unlock(t)
    \/ rtl_rw_lock_write_lock(t)
    \/ rtl_rw_lock_write_unlock(t)

\* ------------------------------------------------------------------------
\* Bounded queue
\* ------------------------------------------------------------------------
\* no observer has been called since the last step of an enqueue or dequeue
NoObs == <<"none", 0>>

\* the latest step was not the return of an enqueue or dequeue call
NoResp == [thread |-> NoThread, op |-> "none", ret |-> 0, val |-> NoValue]

\* thread t returns ret from operation op ("enq" or "deq"); val is the payload
\* it passed to enqueue or finds in the output parameter of dequeue
Resp(t, op, ret, val) == [thread |-> t, op |-> op, ret |-> ret, val |-> val]

\* a step inside a call: any earlier snapshot or response is in the past
QInside ==
  /\ q_obs' = NoObs
  /\ q_resp' = NoResp

\* queue->buffer when rtl_malloc returned NULL
NullBuffer == <<>>

\* rtl_malloc(n * sizeof(void*)): n slots, or NULL when the allocator fails
rtl_malloc(n, ok) == IF ok THEN [i \in 0..(n - 1) |-> NoValue] ELSE NullBuffer

\* rtl_pc_queue_init(queue, c) for a capacity c > 0; ok tells whether its
\* rtl_malloc call succeeds
rtl_pc_queue_init(c, ok) ==
  /\ q_mutex = NoThread
  /\ size = 0
  /\ capacity = c
  /\ head = 0
  /\ tail = 0
  /\ buffer = rtl_malloc(c, ok)

\* rtl_pc_queue_init is declared void: whatever rtl_malloc returned, the
\* caller is told nothing
rtl_pc_queue_init_reports_failure(ok) == FALSE

\* the threads of the queue, none of them inside a call
QThreadsInit ==
  /\ q_pc = [t \in QThreads |-> "idle"]
  /\ q_arg = [t \in QThreads |-> NoValue]
  /\ q_idx = [t \in QThreads |-> 0]
  /\ q_out = [t \in QThreads |-> NoValue]
  /\ q_resp = NoResp
  /\ q_seen = [t \in QThreads |-> 0]
  /\ q_obs = NoObs
  /\ produced = [t \in Producers |-> 0]
  /\ enqOrder = <<>>
  /\ deqOrder = <<>>

\* a queue of capacity c, its buffer allocated, and its threads
QInit(c) == rtl_pc_queue_init(c, TRUE) /\ QThreadsInit

\* a queue of capacity c whose rtl_malloc call may have failed
QInitAlloc(c, ok) == rtl_pc_queue_init(c, ok) /\ QThreadsInit

QGoto(t, loc) == q_pc' = [q_pc EXCEPT ![t] = loc]

\* return from enqueue / dequeue: the parameters and locals of the call end,
\* and the caller takes the payload out of its output parameter
QLeave(t) ==
  /\ q_arg' = [q_arg EXCEPT ![t] = NoValue]
  /\ q_idx' = [q_idx EXCEPT ![t] = 0]
  /\ q_seen' = [q_seen EXCEPT ![t] = 0]
  /\ q_out' = [q_out EXCEPT ![t] = NoValue]

\* the i-th payload handle of producer t: all handles are distinct
Handle(t, i) == (t - 1) * ItemsPerProducer + i

AllHandles ==
  {Handle(t, i) : t \in Producers, i \in 1..ItemsPerProducer}

\* a producer thread calls
\* rtl_pc_queue_enqueue(queue, value) with its next payload handle: the one
\* of its previous call when that call found the queue full
enqueue_call(t) ==
  /\ t \in Producers
  /\ q_pc[t] = "idle"
  /\ produced[t] < ItemsPerProducer
  /\ q_arg' = [q_arg EXCEPT ![t] = Handle(t, produced[t] + 1)]
  /\ QGoto(t, "enq_lock")
  /\ QInside
  /\ UNCHANGED <<q_mutex, qshared, q_idx, q_out, q_seen, qhist, qOther>>

\* rtl_mutex_lock(&queue->mutex)
enq_mutex_lock(t) ==
  /\ q_pc[t] = "enq_lock"
  /\ q_mutex = NoThread
  /\ q_mutex' = t
  /\ QGoto(t, "enq_check")
  /\ QInside
  /\ UNCHANGED <<qshared, qlocal, qhist, qOther>>

\* variant of enq_check: the payload is stored in the slot before the full
\* test, so a failing enqueue overwrites the slot at tail
enq_check_overwrite(t) ==
  /\ q_pc[t] = "enq_check"
  /\ q_seen' = [q_seen EXCEPT ![t] = rtl_atomic_load(size)]
  /\ buffer' = [buffer EXCEPT ![rtl_atomic_load(tail)] = q_arg[t]]
  /\ IF rtl_atomic_load(size) >= rtl_atomic_load(capacity)
       THEN QGoto(t, "enq_full_unlock")
       ELSE QGoto(t, "enq_load_tail")
  /\ QInside
  /\ UNCHANGED <<q_mutex, size, capacity, head, tail, q_arg, q_idx, q_out,
                 qhist, qOther>>

\* variant of enq_check: the full test is written > instead of >=
enq_check_gt(t) ==
  /\ q_pc[t] = "enq_check"
  /\ q_seen' = [q_seen EXCEPT ![t] = rtl_atomic_load(size)]
  /\ IF rtl_atomic_load(size) > rtl_atomic_load(capacity)
       THEN QGoto(t, "enq_full_unlock")
       ELSE QGoto(t, "enq_load_tail")
  /\ QInside
  /\ UNCHANGED <<q_mutex, qshared, q_arg, q_idx, q_out, qhist, qOther>>

\* if (rtl_atomic_load(&queue->size) >= rtl_atomic_load(&queue->capacity))
enq_check(t) ==
  /\ q_pc[t] = "enq_check"
  /\ q_seen' = [q_seen EXCEPT ![t] = rtl_atomic_load(size)]
  /\ IF rtl_atomic_load(size) >= rtl_atomic_load(capacity)
       THEN QGoto(t, "enq_full_unlock")
       ELSE QGoto(t, "enq_load_tail")
  /\ QInside
  /\ UNCHANGED <<q_mutex, qshared, q_arg, q_idx, q_out, qhist, qOther>>

\* variant of enq_full_unlock: the full path returns 0 with the mutex held
enq_full_return_locked(t) ==
  /\ q_pc[t] = "enq_full_unlock"
  /\ q_resp' = Resp(t, "enq", 0, q_arg[t])
  /\ QLeave(t)
  /\ QGoto(t, "idle")
  /\ q_obs' = NoObs
  /\ UNCHANGED <<q_mutex, qshared, qhist, qOther>>

\* rtl_mutex_unlock(&queue->mutex); return 0;
enq_full_unlock(t) ==
  /\ q_pc[t] = "enq_full_unlock"
  /\ q_mutex' = NoThread
  /\ q_resp' = Resp(t, "enq", 0, q_arg[t])
  /\ QLeave(t)
  /\ QGoto(t, "idle")
  /\ q_obs' = NoObs
  /\ UNCHANGED <<qshared, qhist, qOther>>

\* int tail = rtl_atomic_load(&queue->tail);
enq_load_tail(t) ==
  /\ q_pc[t] = "enq_load_tail"
  /\ q_idx' = [q_idx EXCEPT ![t] = rtl_atomic_load(tail)]
  /\ QGoto(t, "enq_write")
  /\ QInside
  /\ UNCHANGED <<q_mutex, qshared, q_arg, q_out, q_seen, qhist, qOther>>

\* queue->buffer[tail] = value;
enq_write(t) ==
  /\ q_pc[t] = "enq_write"
  /\ buffer # NullBuffer
  /\ buffer' = [buffer EXCEPT ![q_idx[t]] = q_arg[t]]
  /\ QGoto(t, "enq_store_tail")
  /\ QInside
  /\ UNCHANGED <<q_mutex, size, capacity, head, tail, qlocal, qhist, qOther>>

\* variant of enq_store_tail: the tail index is stored back without the + 1
enq_store_tail_stuck(t) ==
  /\ q_pc[t] = "enq_store_tail"
  /\ tail' = q_idx[t] % rtl_atomic_load(capacity)
  /\ QGoto(t, "enq_inc_size")
  /\ QInside
  /\ UNCHANGED <<q_mutex, size, capacity, head, buffer, qlocal, qhist, qOther>>

\* rtl_atomic_store(&queue->tail, (tail + 1) % capacity);
enq_store_tail(t) ==
  /\ q_pc[t] = "enq_store_tail"
  /\ tail' = (q_idx[t] + 1) % rtl_atomic_load(capacity)
  /\ QGoto(t, "enq_inc_size")
  /\ QInside
  /\ UNCHANGED <<q_mutex, size, capacity, head, buffer, qlocal, qhist, qOther>>

\* rtl_atomic_fetch_add(&queue->size, 1);
enq_inc_size(t) ==
  /\ q_pc[t] = "enq_inc_size"
  /\ size' = rtl_atomic_fetch_add(size, 1)
  /\ QGoto(t, "enq_unlock")
  /\ QInside
  /\ UNCHANGED <<q_mutex, capacity, head, tail, buffer, qlocal, qhist, qOther>>

\* rtl_mutex_unlock(&queue->mutex); return 1;
enq_unlock(t) ==
  /\ q_pc[t] = "enq_unlock"
  /\ q_mutex' = NoThread
  /\ q_resp' = Resp(t, "enq", 1, q_arg[t])
  /\ enqOrder' = Append(enqOrder, q_arg[t])
  /\ produced' = [produced EXCEPT ![t] = @ + 1]
  /\ QLeave(t)
  /\ QGoto(t, "idle")
  /\ q_obs' = NoObs
  /\ UNCHANGED <<qshared, deqOrder, qOther>>

\* a consumer thread calls
\* rtl_pc_queue_dequeue(queue, &value) with an output parameter not yet set
dequeue_call(t) ==
  /\ t \in Consumers
  /\ q_pc[t] = "idle"
  /\ QGoto(t, "deq_lock")
  /\ QInside
  /\ UNCHANGED <<q_mutex, qshared, q_arg, q_idx, q_out, q_seen, qhist, qOther>>

\* rtl_mutex_lock(&queue->mutex)
deq_mutex_lock(t) ==
  /\ q_pc[t] = "deq_lock"
  /\ q_mutex = NoThread
  /\ q_mutex' = t
  /\ QGoto(t, "deq_check")
  /\ QInside
  /\ UNCHANGED <<qshared, qlocal, qhist, qOther>>

\* variant of deq_check: the empty test compares with the wrong sign
deq_check_negative(t) ==
  /\ q_pc[t] = "deq_check"
  /\ q_seen' = [q_seen EXCEPT ![t] = rtl_atomic_load(size)]
  /\ IF rtl_atomic_load(size) < 0
       THEN QGoto(t, "deq_empty_unlock")
       ELSE QGoto(t, "deq_load_head")
  /\ QInside
  /\ UNCHANGED <<q_mutex, qshared, q_arg, q_idx, q_out, qhist, qOther>>

\* if (rtl_atomic_load(&queue->size) == 0)
deq_check(t) ==
  /\ q_pc[t] = "deq_check"
  /\ q_seen' = [q_seen EXCEPT ![t] = rtl_atomic_load(size)]
  /\ IF rtl_atomic_load(size) = 0
       THEN QGoto(t, "deq_empty_unlock")
       ELSE QGoto(t, "deq_load_head")
  /\ QInside
  /\ UNCHANGED <<q_mutex, qshared, q_arg, q_idx, q_out, qhist, qOther>>

\* rtl_mutex_unlock(&queue->mutex); return 0;
deq_empty_unlock(t) ==
  /\ q_pc[t] = "deq_empty_unlock"
  /\ q_mutex' = NoThread
  /\ q_resp' = Resp(t, "deq", 0, q_out[t])
  /\ QLeave(t)
  /\ QGoto(t, "idle")
  /\ q_obs' = NoObs
  /\ UNCHANGED <<qshared, qhist, qOther>>

\* variant of deq_load_head: the dequeue reads the tail index
deq_load_head_tail(t) ==
  /\ q_pc[t] = "deq_load_head"
  /\ q_idx' = [q_idx EXCEPT ![t] = rtl_atomic_load(tail)]
  /\ QGoto(t, "deq_read")
  /\ QInside
  /\ UNCHANGED <<q_mutex, qshared, q_arg, q_out, q_seen, qhist, qOther>>

\* int head = rtl_atomic_load(&queue->head);
deq_load_head(t) ==
  /\ q_pc[t] = "deq_load_head"
  /\ q_idx' = [q_idx EXCEPT ![t] = rtl_atomic_load(head)]
  /\ QGoto(t, "deq_read")
  /\ QInside
  /\ UNCHANGED <<q_mutex, qshared, q_arg, q_out, q_seen, qhist, qOther>>

\* *value = queue->buffer[head];
deq_read(t) ==
  /\ q_pc[t] = "deq_read"
  /\ buffer # NullBuffer
  /\ q_out' = [q_out EXCEPT ![t] = buffer[q_idx[t]]]
  /\ QGoto(t, "deq_store_head")
  /\ QInside
  /\ UNCHANGED <<q_mutex, qshared, q_arg, q_idx, q_seen, qhist, qOther>>

\* variant of deq_store_head: the head index is stored back without the + 1
deq_store_head_stuck(t) ==
  /\ q_pc[t] = "deq_store_head"
  /\ head' = q_idx[t] % rtl_atomic_load(capacity)
  /\ QGoto(t, "deq_dec_size")
  /\ QInside
  /\ UNCHANGED <<q_mutex, size, capacity, tail, buffer, qlocal, qhist, qOther>>

\* rtl_atomic_store(&queue->head, (head + 1) % capacity);
deq_store_head(t) ==
  /\ q_pc[t] = "deq_store_head"
  /\ head' = (q_idx[t] + 1) % rtl_atomic_load(capacity)
  /\ QGoto(t, "deq_dec_size")
  /\ QInside
  /\ UNCHANGED <<q_mutex, size, capacity, tail, buffer, qlocal, qhist, qOther>>

\* rtl_atomic_fetch_sub(&queue->size, 1);
deq_dec_size(t) ==
  /\ q_pc[t] = "deq_dec_size"
  /\ size' = rtl_atomic_fetch_sub(size, 1)
  /\ QGoto(t, "deq_unlock")
  /\ QInside
  /\ UNCHANGED <<q_mutex, capacity, head, tail, buffer, qlocal, qhist, qOther>>

\* rtl_mutex_unlock(&queue->mutex); return 1;
deq_unlock(t) ==
  /\ q_pc[t] = "deq_unlock"
  /\ q_mutex' = NoThread
  /\ q_resp' = Resp(t, "deq", 1, q_out[t])
  /\ deqOrder' = Append(deqOrder, q_out[t])
  /\ QLeave(t)
  /\ QGoto(t, "idle")
  /\ q_obs' = NoObs
  /\ UNCHANGED <<qshared, produced, enqOrder, qOther>>

\* rtl_pc_queue_is_empty: reads the size counter without the mutex
rtl_pc_queue_is_empty ==
  /\ q_obs' = <<"is_empty", IF rtl_atomic_load(size) = 0 THEN 1 ELSE 0>>
  /\ q_resp' = NoResp
  /\ UNCHANGED <<q_mutex, qshared, q_pc, qlocal, qhist, qOther>>

\* rtl_pc_queue_is_full: reads size and capacity without the mutex
rtl_pc_queue_is_full ==
  /\ q_obs' = <<"is_full",
                IF rtl_atomic_load(size) >= rtl_atomic_load(capacity)
                  THEN 1 ELSE 0>>
  /\ q_resp' = NoResp
  /\ UNCHANGED <<q_mutex, qshared, q_pc, qlocal, qhist, qOther>>

\* rtl_pc_queue_size: reads the size counter without the mutex
rtl_pc_queue_size ==
  /\ q_obs' = <<"size", rtl_atomic_load(size)>>
  /\ q_resp' = NoResp
  /\ UNCHANGED <<q_mutex, qshared, q_pc, qlocal, qhist, qOther>>

\* queue->buffer[tail] = value with queue->buffer == NULL: undefined
\* behaviour.  Either the process is killed by the invalid store, or the
\* store lands outside the queue and the call goes on.
enq_write_null(t) ==
  /\ q_pc[t] = "enq_write"
  /\ buffer = NullBuffer
  /\ \/ q_pc' = [u \in QThreads |-> "crashed"]
     \/ QGoto(t, "enq_store_tail")
  /\ QInside
  /\ UNCHANGED <<q_mutex, qshared, qlocal, qhist, qOther>>

\* *value = queue->buffer[head] with queue->buffer == NULL: undefined
\* behaviour.  Either the process is killed by the invalid load, or the load
\* yields whatever lies at that address.
deq_read_null(t) ==
  /\ q_pc[t] = "deq_read"
  /\ buffer = NullBuffer
  /\ \/ q_pc' = [u \in QThreads |-> "crashed"] /\ UNCHANGED q_out
     \/ /\ QGoto(t, "deq_store_head")
        /\ \E v \in AllHandles \cup {NoValue} :
             q_out' = [q_out EXCEPT ![t] = v]
  /\ QInside
  /\ UNCHANGED <<q_mutex, qshared, q_arg, q_idx, q_seen, qhist, qOther>>

rtl_pc_queue_enqueue(t) ==
  \/ enqueue_call(t)
  \/ enq_mutex_lock(t)
  \/ enq_check(t)
  \/ enq_full_unlock(t)
  \/ enq_load_tail(t)
  \/ enq_write(t)
  \/ enq_store_tail(t)
  \/ enq_inc_size(t)
  \/ enq_unlock(t)

rtl_pc_queue_dequeue(t) ==
  \/ dequeue_call(t)
  \/ deq_mutex_lock(t)
  \/ deq_check(t)
  \/ deq_empty_unlock(t)
  \/ deq_load_head(t)
  \/ deq_read(t)
  \/ deq_store_head(t)
  \/ deq_dec_size(t)
  \/ deq_unlock(t)

QNext ==
  \E t \in QThreads :
    \/ rtl_pc_queue_enqueue(t)
    \/ rtl_pc_queue_dequeue(t)

\* the calls on a queue whose buffer may be absent
QAllocNext ==
  \/ QNext
  \/ \E t \in QThreads : enq_write_null(t) \/ deq_read_null(t)

\* the observers, callable at any moment by a thread outside the mutex
QObserve ==
  \/ rtl_pc_queue_is_empty
  \/ rtl_pc_queue_is_full
  \/ rtl_pc_queue_size

QObsNext == QNext \/ QObserve

\* ------------------------------------------------------------------------
\* Barrier
\* ------------------------------------------------------------------------
\* rtl_barrier_init(barrier, n)
rtl_barrier_init(n) ==
  /\ b_mutex = NoThread
  /\ count = 0
  /\ generation = 0
  /\ expected_count = n

\* a barrier for n threads and its threads, none of them inside a call
BInit(n) ==
  /\ rtl_barrier_init(n)
  /\ b_pc = [t \in BThreads |-> "idle"]
  /\ b_gen = [t \in BThreads |-> 0]
  /\ b_calls = [t \in BThreads |-> 0]
  /\ arrivals = [g \in 0..(NumBThreads * MaxCalls) |-> 0]

BGoto(t, loc) == b_pc' = [b_pc EXCEPT ![t] = loc]

\* a thread calls rtl_barrier_wait
barrier_wait_call(t) ==
  /\ b_pc[t] = "idle"
  /\ b_calls[t] < MaxCalls
  /\ BGoto(t, "bw_lock")
  /\ UNCHANGED <<b_mutex, count, generation, expected_count, b_gen, b_calls,
                 arrivals, bOther>>

\* rtl_mutex_lock(&barrier->mutex) at the head of wait and in its loop
bw_mutex_lock(t) ==
  /\ b_pc[t] \in {"bw_lock", "bw_relock"}
  /\ b_mutex = NoThread
  /\ b_mutex' = t
  /\ IF b_pc[t] = "bw_lock"
       THEN BGoto(t, "bw_load_gen")
       ELSE BGoto(t, "bw_loop")
  /\ UNCHANGED <<count, generation, expected_count, b_gen, b_calls, arrivals,
                 bOther>>

\* int generation = rtl_atomic_load(&barrier->generation);
bw_load_gen(t) ==
  /\ b_pc[t] = "bw_load_gen"
  /\ b_gen' = [b_gen EXCEPT ![t] = rtl_atomic_load(generation)]
  /\ arrivals' = [arrivals EXCEPT ![generation] = @ + 1]
  /\ BGoto(t, "bw_inc")
  /\ UNCHANGED <<b_mutex, count, generation, expected_count, b_calls, bOther>>

\* rtl_atomic_fetch_add(&barrier->count, 1);
bw_inc(t) ==
  /\ b_pc[t] = "bw_inc"
  /\ count' = rtl_atomic_fetch_add(count, 1)
  /\ BGoto(t, "bw_check")
  /\ UNCHANGED <<b_mutex, generation, expected_count, b_gen, b_calls, arrivals,
                 bOther>>

\* variant of bw_check: the comparison is off by one, so the barrier trips
\* one arrival early
bw_check_early(t) ==
  /\ b_pc[t] = "bw_check"
  /\ IF rtl_atomic_load(count) = expected_count - 1
       THEN BGoto(t, "bw_reset")
       ELSE BGoto(t, "bw_loop")
  /\ UNCHANGED <<b_mutex, count, generation, expected_count, b_gen, b_calls,
                 arrivals, bOther>>

\* if (rtl_atomic_load(&barrier->count) == barrier->expected_count)
bw_check(t) ==
  /\ b_pc[t] = "bw_check"
  /\ IF rtl_atomic_load(count) = expected_count
       THEN BGoto(t, "bw_reset")
       ELSE BGoto(t, "bw_loop")
  /\ UNCHANGED <<b_mutex, count, generation, expected_count, b_gen, b_calls,
                 arrivals, bOther>>

\* variant of bw_reset: the tripping thread leaves count as it is
bw_reset_keep(t) ==
  /\ b_pc[t] = "bw_reset"
  /\ BGoto(t, "bw_gen_inc")
  /\ UNCHANGED <<b_mutex, count, generation, expected_count, b_gen, b_calls,
                 arrivals, bOther>>

\* rtl_atomic_store(&barrier->count, 0);
bw_reset(t) ==
  /\ b_pc[t] = "bw_reset"
  /\ count' = 0
  /\ BGoto(t, "bw_gen_inc")
  /\ UNCHANGED <<b_mutex, generation, expected_count, b_gen, b_calls, arrivals,
                 bOther>>

\* variant of bw_gen_inc: the tripping thread forgets to advance generation
bw_gen_inc_skip(t) ==
  /\ b_pc[t] = "bw_gen_inc"
  /\ BGoto(t, "bw_unlock")
  /\ UNCHANGED <<b_mutex, count, generation, expected_count, b_gen, b_calls,
                 arrivals, bOther>>

\* rtl_atomic_fetch_add(&barrier->generation, 1);
bw_gen_inc(t) ==
  /\ b_pc[t] = "bw_gen_inc"
  /\ generation' = rtl_atomic_fetch_add(generation, 1)
  /\ BGoto(t, "bw_unlock")
  /\ UNCHANGED <<b_mutex, count, expected_count, b_gen, b_calls, arrivals,
                 bOther>>

\* variant of bw_loop: the waiter compares with the wrong sense and leaves
\* while the generation is still the one it captured
bw_loop_inverted(t) ==
  /\ b_pc[t] = "bw_loop"
  /\ IF rtl_atomic_load(generation) # b_gen[t]
       THEN BGoto(t, "bw_loop_unlock")
       ELSE BGoto(t, "bw_unlock")
  /\ UNCHANGED <<b_mutex, count, generation, expected_count, b_gen, b_calls,
                 arrivals, bOther>>

\* while (rtl_atomic_load(&barrier->generation) == generation)
bw_loop(t) ==
  /\ b_pc[t] = "bw_loop"
  /\ IF rtl_atomic_load(generation) = b_gen[t]
       THEN BGoto(t, "bw_loop_unlock")
       ELSE BGoto(t, "bw_unlock")
  /\ UNCHANGED <<b_mutex, count, generation, expected_count, b_gen, b_calls,
                 arrivals, bOther>>

\* loop body: rtl_mutex_unlock(&barrier->mutex)
bw_loop_unlock(t) ==
  /\ b_pc[t] = "bw_loop_unlock"
  /\ b_mutex' = NoThread
  /\ BGoto(t, "bw_sleep")
  /\ UNCHANGED <<count, generation, expected_count, b_gen, b_calls, arrivals,
                 bOther>>

\* loop body: rtl_thread_sleep(1)
bw_sleep(t) ==
  /\ b_pc[t] = "bw_sleep"
  /\ BGoto(t, "bw_relock")
  /\ UNCHANGED <<b_mutex, count, generation, expected_count, b_gen, b_calls,
                 arrivals, bOther>>

\* rtl_mutex_unlock(&barrier->mutex); wait returns
bw_unlock(t) ==
  /\ b_pc[t] = "bw_unlock"
  /\ b_mutex' = NoThread
  /\ b_gen' = [b_gen EXCEPT ![t] = 0]
  /\ b_calls' = [b_calls EXCEPT ![t] = @ + 1]
  /\ BGoto(t, "idle")
  /\ UNCHANGED <<count, generation, expected_count, arrivals, bOther>>

rtl_barrier_wait(t) ==
  \/ barrier_wait_call(t)
  \/ bw_mutex_lock(t)
  \/ bw_load_gen(t)
  \/ bw_inc(t)
  \/ bw_check(t)
  \/ bw_reset(t)
  \/ bw_gen_inc(t)
  \/ bw_loop(t)
  \/ bw_loop_unlock(t)
  \/ bw_sleep(t)
  \/ bw_unlock(t)

BNext == \E t \in BThreads : rtl_barrier_wait(t)

\* ------------------------------------------------------------------------
\* Lock-free multi-producer multi-consumer queue
\* (rtl_lockfree_mpmc_queue_*: declared in rtl_thread.h; the protocol is the
\* one of section 4.7 of the specification.  head and tail are indices in a
\* monotonically increasing index space, index i uses slot i % capacity, and
\* the full / empty tests consult the ready mark of the slot.)
\* ------------------------------------------------------------------------
\* the producer and consumer threads of the lock-free queue
MQProducers == 1..NumMQProducers
MQConsumers == (NumMQProducers + 1)..(NumMQProducers + NumMQConsumers)
MQThreads == MQProducers \cup MQConsumers

\* the payload handles of the enqueue calls
MQHandles == 1..MQMaxEnqueues

\* rtl_lockfree_mpmc_queue_init(queue, c) for a capacity c > 0
rtl_lockfree_mpmc_queue_init(c) ==
  /\ mq_head = 0
  /\ mq_tail = 0
  /\ mq_capacity = c
  /\ mq_buffer = [i \in 0..(c - 1) |-> NoValue]
  /\ mq_ready = [i \in 0..(c - 1) |-> FALSE]

\* a lock-free queue of capacity c and its threads, none inside a call
MQInit(c) ==
  /\ rtl_lockfree_mpmc_queue_init(c)
  /\ mq_pc = [t \in MQThreads |-> "idle"]
  /\ mq_arg = [t \in MQThreads |-> NoValue]
  /\ mq_idx = [t \in MQThreads |-> 0]
  /\ mq_out = [t \in MQThreads |-> NoValue]
  /\ mq_beaten = [t \in MQThreads |-> FALSE]
  /\ mq_resp = NoResp
  /\ mq_calls = 0
  /\ mq_accepted = [v \in MQHandles \cup {NoValue} |-> 0]
  /\ mq_taken = [v \in MQHandles \cup {NoValue} |-> 0]

MQGoto(t, loc) == mq_pc' = [mq_pc EXCEPT ![t] = loc]

\* the slot of an index
MQSlot(i) == i % mq_capacity

\* a call returns: its locals are dead
MQLeave(t) ==
  /\ mq_arg' = [mq_arg EXCEPT ![t] = NoValue]
  /\ mq_idx' = [mq_idx EXCEPT ![t] = 0]
  /\ mq_out' = [mq_out EXCEPT ![t] = NoValue]
  /\ MQGoto(t, "idle")

\* positions of a call between its load of tail / head and its
\* compare-and-swap on it
MQEnqAttempt == {"enq_load_head", "enq_check_slot", "enq_cas"}
MQDeqAttempt == {"deq_load_tail", "deq_check_slot", "deq_cas"}

\* thread t's compare-and-swap succeeded: every other call that has loaded
\* the same index and not yet tried its own compare-and-swap is beaten
MQBeat(t, attempt) ==
  mq_beaten' = [u \in MQThreads |->
                  IF u # t /\ mq_pc[u] \in attempt THEN TRUE ELSE mq_beaten[u]]

\* a step inside a call: no call returns in it
MQInside == mq_resp' = NoResp

\* a producer thread calls rtl_lockfree_mpmc_queue_enqueue(queue, value) with
\* a freshly allocated payload: all payload handles are distinct
mq_enqueue_call(t) ==
  /\ t \in MQProducers
  /\ mq_pc[t] = "idle"
  /\ mq_calls < MQMaxEnqueues
  /\ mq_calls' = mq_calls + 1
  /\ mq_arg' = [mq_arg EXCEPT ![t] = mq_calls + 1]
  /\ MQGoto(t, "enq_load_tail")
  /\ MQInside
  /\ UNCHANGED <<mqshared, mq_idx, mq_out, mq_beaten, mq_accepted, mq_taken,
                 mqOther>>

\* the producer reads the current tail (first attempt and every retry)
mq_enq_load_tail(t) ==
  /\ mq_pc[t] = "enq_load_tail"
  /\ mq_idx' = [mq_idx EXCEPT ![t] = rtl_atomic_load(mq_tail)]
  /\ mq_beaten' = [mq_beaten EXCEPT ![t] = FALSE]
  /\ MQGoto(t, "enq_load_head")
  /\ MQInside
  /\ UNCHANGED <<mqshared, mq_arg, mq_out, mqhist, mqOther>>

\* it verifies that the queue is not full: fewer than capacity indices
\* between head and the tail it read; else it returns 0
mq_enq_load_head(t) ==
  /\ mq_pc[t] = "enq_load_head"
  /\ IF mq_idx[t] - rtl_atomic_load(mq_head) >= mq_capacity
       THEN /\ mq_resp' = Resp(t, "enq", 0, mq_arg[t])
            /\ MQLeave(t)
       ELSE /\ MQGoto(t, "enq_check_slot")
            /\ MQInside
            /\ UNCHANGED mqlocal
  /\ UNCHANGED <<mqshared, mq_beaten, mqhist, mqOther>>

\* ... and that the slot of that index is no longer marked ready (its
\* previous payload has been taken); else it returns 0
mq_enq_check_slot(t) ==
  /\ mq_pc[t] = "enq_check_slot"
  /\ IF mq_ready[MQSlot(mq_idx[t])]
       THEN /\ mq_resp' = Resp(t, "enq", 0, mq_arg[t])
            /\ MQLeave(t)
       ELSE /\ MQGoto(t, "enq_cas")
            /\ MQInside
            /\ UNCHANGED mqlocal
  /\ UNCHANGED <<mqshared, mq_beaten, mqhist, mqOther>>

\* it attempts to advance tail by one with a compare-and-swap; on success it
\* owns the slot, on failure it retries from the load of tail
mq_enq_cas(t) ==
  /\ mq_pc[t] = "enq_cas"
  /\ LET r == rtl_atomic_compare_exchange_bool(mq_tail, mq_idx[t], mq_idx[t] + 1)
     IN /\ mq_tail' = r.word
        /\ IF r.ok
             THEN MQGoto(t, "enq_write") /\ MQBeat(t, MQEnqAttempt)
             ELSE MQGoto(t, "enq_load_tail") /\ UNCHANGED mq_beaten
  /\ MQInside
  /\ UNCHANGED <<mq_head, mq_capacity, mq_buffer, mq_ready, mqlocal, mqhist,
                 mqOther>>

\* the owner writes the payload into the claimed slot
mq_enq_write(t) ==
  /\ mq_pc[t] = "enq_write"
  /\ mq_buffer' = [mq_buffer EXCEPT ![MQSlot(mq_idx[t])] = mq_arg[t]]
  /\ MQGoto(t, "enq_mark")
  /\ MQInside
  /\ UNCHANGED <<mq_head, mq_tail, mq_capacity, mq_ready, mqlocal, mq_beaten,
                 mqhist, mqOther>>

\* then it marks the slot ready and returns 1
mq_enq_mark(t) ==
  /\ mq_pc[t] = "enq_mark"
  /\ mq_ready' = [mq_ready EXCEPT ![MQSlot(mq_idx[t])] = TRUE]
  /\ mq_accepted' = [mq_accepted EXCEPT ![mq_arg[t]] = @ + 1]
  /\ mq_resp' = Resp(t, "enq", 1, mq_arg[t])
  /\ MQLeave(t)
  /\ UNCHANGED <<mq_head, mq_tail, mq_capacity, mq_buffer, mq_beaten, mq_calls,
                 mq_taken, mqOther>>

\* a consumer thread calls rtl_lockfree_mpmc_queue_dequeue(queue, &value)
mq_dequeue_call(t) ==
  /\ t \in MQConsumers
  /\ mq_pc[t] = "idle"
  /\ MQGoto(t, "deq_load_head")
  /\ MQInside
  /\ UNCHANGED <<mqshared, mqlocal, mq_beaten, mqhist, mqOther>>

\* the consumer reads the current head (first attempt and every retry)
mq_deq_load_head(t) ==
  /\ mq_pc[t] = "deq_load_head"
  /\ mq_idx' = [mq_idx EXCEPT ![t] = rtl_atomic_load(mq_head)]
  /\ mq_beaten' = [mq_beaten EXCEPT ![t] = FALSE]
  /\ MQGoto(t, "deq_load_tail")
  /\ MQInside
  /\ UNCHANGED <<mqshared, mq_arg, mq_out, mqhist, mqOther>>

\* it verifies that the queue is not empty: tail is beyond the head it
\* read; else it returns 0
mq_deq_load_tail(t) ==
  /\ mq_pc[t] = "deq_load_tail"
  /\ IF rtl_atomic_load(mq_tail) - mq_idx[t] <= 0
       THEN /\ mq_resp' = Resp(t, "deq", 0, mq_out[t])
            /\ MQLeave(t)
       ELSE /\ MQGoto(t, "deq_check_slot")
            /\ MQInside
            /\ UNCHANGED mqlocal
  /\ UNCHANGED <<mqshared, mq_beaten, mqhist, mqOther>>

\* ... and that the slot of that index is marked ready (its payload has
\* been written); else it returns 0
mq_deq_check_slot(t) ==
  /\ mq_pc[t] = "deq_check_slot"
  /\ IF ~mq_ready[MQSlot(mq_idx[t])]
       THEN /\ mq_resp' = Resp(t, "deq", 0, mq_out[t])
            /\ MQLeave(t)
       ELSE /\ MQGoto(t, "deq_cas")
            /\ MQInside
            /\ UNCHANGED mqlocal
  /\ UNCHANGED <<mqshared, mq_beaten, mqhist, mqOther>>

\* it attempts to advance head by one with a compare-and-swap; on success it
\* owns the slot, on failure it retries from the load of head
mq_deq_cas(t) ==
  /\ mq_pc[t] = "deq_cas"
  /\ LET r == rtl_atomic_compare_exchange_bool(mq_head, mq_idx[t], mq_idx[t] + 1)
     IN /\ mq_head' = r.word
        /\ IF r.ok
             THEN MQGoto(t, "deq_read") /\ MQBeat(t, MQDeqAttempt)
             ELSE MQGoto(t, "deq_load_head") /\ UNCHANGED mq_beaten
  /\ MQInside
  /\ UNCHANGED <<mq_tail, mq_capacity, mq_buffer, mq_ready, mqlocal, mqhist,
                 mqOther>>

\* the owner reads the payload from the claimed slot
mq_deq_read(t) ==
  /\ mq_pc[t] = "deq_read"
  /\ mq_out' = [mq_out EXCEPT ![t] = mq_buffer[MQSlot(mq_idx[t])]]
  /\ MQGoto(t, "deq_mark")
  /\ MQInside
  /\ UNCHANGED <<mqshared, mq_arg, mq_idx, mq_beaten, mqhist, mqOther>>

\* then it marks the slot free again and returns 1 with the payload
mq_deq_mark(t) ==
  /\ mq_pc[t] = "deq_mark"
  /\ mq_ready' = [mq_ready EXCEPT ![MQSlot(mq_idx[t])] = FALSE]
  /\ mq_taken' = [mq_taken EXCEPT ![mq_out[t]] = @ + 1]
  /\ mq_resp' = Resp(t, "deq", 1, mq_out[t])
  /\ MQLeave(t)
  /\ UNCHANGED <<mq_head, mq_tail, mq_capacity, mq_buffer, mq_beaten,
                 mq_calls, mq_accepted, mqOther>>

rtl_lockfree_mpmc_queue_enqueue(t) ==
  \/ mq_enqueue_call(t)
  \/ mq_enq_load_tail(t)
  \/ mq_enq_load_head(t)
  \/ mq_enq_check_slot(t)
  \/ mq_enq_cas(t)
  \/ mq_enq_write(t)
  \/ mq_enq_mark(t)

rtl_lockfree_mpmc_queue_dequeue(t) ==
  \/ mq_dequeue_call(t)
  \/ mq_deq_load_head(t)
  \/ mq_deq_load_tail(t)
  \/ mq_deq_check_slot(t)
  \/ mq_deq_cas(t)
  \/ mq_deq_read(t)
  \/ mq_deq_mark(t)

MQNext ==
  \E t \in MQThreads :
    \/ rtl_lockfree_mpmc_queue_enqueue(t)
    \/ rtl_lockfree_mpmc_queue_dequeue(t)

\* ------------------------------------------------------------------------
\* Lock-free single-producer single-consumer queue
\* (rtl_lockfree_queue_*: declared in rtl_thread.h; the steps are those of
\* section 4.6 of the specification.  head and tail are read with
\* rtl_atomic_load and written with rtl_atomic_store; the payload is a plain
\* store into the buffer.)
\* ------------------------------------------------------------------------
\* rtl_lockfree_queue_init(queue, c) for a capacity c > 0
rtl_lockfree_queue_init(c) ==
  /\ sq_head = 0
  /\ sq_tail = 0
  /\ sq_capacity = c
  /\ sq_buffer = [i \in 0..(c - 1) |-> NoValue]
  /\ sq_wbuf = <<>>

\* a lock-free queue of capacity c and its two threads, none inside a call
SQInit(c) ==
  /\ rtl_lockfree_queue_init(c)
  /\ sq_pc = [t \in SQThreads |-> "idle"]
  /\ sq_arg = NoValue
  /\ sq_idx = [t \in SQThreads |-> 0]
  /\ sq_out = NoValue
  /\ sq_resp = NoResp
  /\ sq_enq = <<>>
  /\ sq_deq = <<>>

SQGoto(t, loc) == sq_pc' = [sq_pc EXCEPT ![t] = loc]

\* a step inside a call: no call returns in it
SQInside == sq_resp' = NoResp

\* the producer thread calls rtl_lockfree_queue_enqueue(queue, value) with
\* its next payload: payload i + 1 once i payloads have been accepted (it
\* offers the same payload again after a call that returned 0)
sq_enqueue_call ==
  /\ sq_pc[SQProducer] = "idle"
  /\ Len(sq_enq) < SQItems
  /\ sq_arg' = Len(sq_enq) + 1
  /\ SQGoto(SQProducer, "enq_load_tail")
  /\ SQInside
  /\ UNCHANGED <<sqshared, sq_idx, sq_out, sqhist, sqOther>>

\* tail = rtl_atomic_load(&queue->tail)
sq_enq_load_tail ==
  /\ sq_pc[SQProducer] = "enq_load_tail"
  /\ sq_idx' = [sq_idx EXCEPT ![SQProducer] = rtl_atomic_load(sq_tail)]
  /\ SQGoto(SQProducer, "enq_check")
  /\ SQInside
  /\ UNCHANGED <<sqshared, sq_arg, sq_out, sqhist, sqOther>>

\* if (tail + 1) mod capacity == head the queue is full: return 0
sq_enq_check ==
  /\ sq_pc[SQProducer] = "enq_check"
  /\ IF (sq_idx[SQProducer] + 1) % sq_capacity = rtl_atomic_load(sq_head)
       THEN /\ sq_resp' = Resp(SQProducer, "enq", 0, sq_arg)
            /\ SQGoto(SQProducer, "idle")
       ELSE /\ SQGoto(SQProducer, "enq_write")
            /\ SQInside
  /\ UNCHANGED <<sqshared, sqlocal, sqhist, sqOther>>

\* buffer[tail] = value: a plain store
sq_enq_write ==
  /\ sq_pc[SQProducer] = "enq_write"
  /\ sq_wbuf' = Append(sq_wbuf, <<sq_idx[SQProducer], sq_arg>>)
  /\ SQGoto(SQProducer, "enq_publish")
  /\ SQInside
  /\ UNCHANGED <<sq_head, sq_tail, sq_capacity, sq_buffer, sqlocal, sqhist,
                 sqOther>>

\* publish: rtl_atomic_store(&queue->tail, (tail + 1) mod capacity);
\* return 1
sq_enq_publish ==
  /\ sq_pc[SQProducer] = "enq_publish"
  /\ LET st == rtl_atomic_store(sq_buffer, sq_wbuf,
                                (sq_idx[SQProducer] + 1) % sq_capacity)
     IN /\ sq_buffer' = st.mem
        /\ sq_wbuf' = st.wbuf
        /\ sq_tail' = st.word
  /\ sq_enq' = Append(sq_enq, sq_arg)
  /\ sq_resp' = Resp(SQProducer, "enq", 1, sq_arg)
  /\ SQGoto(SQProducer, "idle")
  /\ UNCHANGED <<sq_head, sq_capacity, sqlocal, sq_deq, sqOther>>

\* the hardware writes one of the producer's plain stores to memory
sq_drain ==
  /\ \E i \in Drainable(sq_wbuf) :
       /\ sq_buffer' = [sq_buffer EXCEPT ![sq_wbuf[i][1]] = sq_wbuf[i][2]]
       /\ sq_wbuf' = DropAt(sq_wbuf, i)
  /\ SQInside
  /\ UNCHANGED <<sq_head, sq_tail, sq_capacity, sq_pc, sqlocal, sqhist,
                 sqOther>>

\* the consumer thread calls rtl_lockfree_queue_dequeue(queue, &value)
sq_dequeue_call ==
  /\ sq_pc[SQConsumer] = "idle"
  /\ SQGoto(SQConsumer, "deq_load_head")
  /\ SQInside
  /\ UNCHANGED <<sqshared, sqlocal, sqhist, sqOther>>

\* head = rtl_atomic_load(&queue->head)
sq_deq_load_head ==
  /\ sq_pc[SQConsumer] = "deq_load_head"
  /\ sq_idx' = [sq_idx EXCEPT ![SQConsumer] = rtl_atomic_load(sq_head)]
  /\ SQGoto(SQConsumer, "deq_check")
  /\ SQInside
  /\ UNCHANGED <<sqshared, sq_arg, sq_out, sqhist, sqOther>>

\* if head == tail the queue is empty: return 0
sq_deq_check ==
  /\ sq_pc[SQConsumer] = "deq_check"
  /\ IF sq_idx[SQConsumer] = rtl_atomic_load(sq_tail)
       THEN /\ sq_resp' = Resp(SQConsumer, "deq", 0, sq_out)
            /\ SQGoto(SQConsumer, "idle")
       ELSE /\ SQGoto(SQConsumer, "deq_read")
            /\ SQInside
  /\ UNCHANGED <<sqshared, sqlocal, sqhist, sqOther>>

\* *value = buffer[head]: a plain load from memory
sq_deq_read ==
  /\ sq_pc[SQConsumer] = "deq_read"
  /\ sq_out' = sq_buffer[sq_idx[SQConsumer]]
  /\ SQGoto(SQConsumer, "deq_advance")
  /\ SQInside
  /\ UNCHANGED <<sqshared, sq_arg, sq_idx, sqhist, sqOther>>

\* advance: rtl_atomic_store(&queue->head, (head + 1) mod capacity);
\* return 1 (the consumer makes no plain store: its store buffer is empty)
sq_deq_advance ==
  /\ sq_pc[SQConsumer] = "deq_advance"
  /\ sq_head' = rtl_atomic_store(sq_buffer, <<>>,
                                 (sq_idx[SQConsumer] + 1) % sq_capacity).word
  /\ sq_deq' = Append(sq_deq, sq_out)
  /\ sq_resp' = Resp(SQConsumer, "deq", 1, sq_out)
  /\ SQGoto(SQConsumer, "idle")
  /\ UNCHANGED <<sq_tail, sq_capacity, sq_buffer, sq_wbuf, sqlocal, sq_enq,
                 sqOther>>

rtl_lockfree_queue_enqueue ==
  \/ sq_enqueue_call
  \/ sq_enq_load_tail
  \/ sq_enq_check
  \/ sq_enq_write
  \/ sq_enq_publish

rtl_lockfree_queue_dequeue ==
  \/ sq_dequeue_call
  \/ sq_deq_load_head
  \/ sq_deq_check
  \/ sq_deq_read
  \/ sq_deq_advance

SQNext ==
  \/ rtl_lockfree_queue_enqueue
  \/ rtl_lockfree_queue_dequeue
  \/ sq_drain

\* ------------------------------------------------------------------------
\* Mutex (rtl_mutex_* of rtl_thread.h) and worker threads that increment a
\* shared counter inside a critical section (list_worker_thread); a worker
\* may also lock the mutex a second time while it holds it
\* (test_mutex_reentrancy)
\* ------------------------------------------------------------------------
\* rtl_mutex_init on either build, and the workers before their first lock
MXInit ==
  /\ mx_recursive \in BOOLEAN
  /\ mx_owner = NoThread
  /\ mx_depth = 0
  /\ mx_pc = [t \in MXThreads |-> "lock"]
  /\ mx_tmp = [t \in MXThreads |-> 0]
  /\ item_count = 0
  /\ mx_iter = [t \in MXThreads |-> 0]

\* the mutex as rtl_mutex_init leaves it on one build, with no worker
MXIdle ==
  /\ mx_recursive = FALSE
  /\ mx_owner = NoThread
  /\ mx_depth = 0
  /\ mx_pc = [t \in MXThreads |-> "done"]
  /\ mx_tmp = [t \in MXThreads |-> 0]
  /\ item_count = 0
  /\ mx_iter = [t \in MXThreads |-> MXIters]

MXGoto(t, loc) == mx_pc' = [mx_pc EXCEPT ![t] = loc]

\* variant of rtl_mutex_lock: returns without waiting for the mutex to be
\* free
rtl_mutex_lock_nowait(t) ==
  /\ mx_pc[t] = "lock"
  /\ mx_iter[t] < MXIters
  /\ mx_owner' = t
  /\ mx_depth' = 1
  /\ MXGoto(t, "held")
  /\ UNCHANGED <<mx_recursive, mx_tmp, item_count, mx_iter, mxOther>>

\* rtl_mutex_lock(&mutex) by a thread that does not hold it: returns once
\* the mutex is free, and the thread holds it
rtl_mutex_lock(t) ==
  /\ mx_pc[t] = "lock"
  /\ mx_iter[t] < MXIters
  /\ mx_owner = NoThread
  /\ mx_owner' = t
  /\ mx_depth' = 1
  /\ MXGoto(t, "held")
  /\ UNCHANGED <<mx_recursive, mx_tmp, item_count, mx_iter, mxOther>>

\* rtl_mutex_lock(&mutex) by the thread that holds it.  A CRITICAL_SECTION
\* counts the second lock; a default pthread mutex makes the call wait for
\* the unlock its own caller would have to make: it never returns.
rtl_mutex_lock_again(t) ==
  /\ mx_pc[t] = "held"
  /\ mx_owner = t
  /\ IF mx_recursive
       THEN /\ mx_depth' = mx_depth + 1
            /\ MXGoto(t, "held_twice")
       ELSE /\ mx_depth' = mx_depth
            /\ MXGoto(t, "self_deadlock")
  /\ UNCHANGED <<mx_recursive, mx_owner, mx_tmp, item_count, mx_iter,
                 mxOther>>

\* rtl_mutex_unlock(&mutex) matching the second lock
rtl_mutex_unlock_inner(t) ==
  /\ mx_pc[t] = "held_twice"
  /\ mx_owner = t
  /\ mx_depth' = mx_depth - 1
  /\ MXGoto(t, "read")
  /\ UNCHANGED <<mx_recursive, mx_owner, mx_tmp, item_count, mx_iter,
                 mxOther>>

\* the worker goes on to its increment without a second lock
mx_enter(t) ==
  /\ mx_pc[t] = "held"
  /\ MXGoto(t, "read")
  /\ UNCHANGED <<mx_recursive, mx_owner, mx_depth, mx_tmp, item_count,
                 mx_iter, mxOther>>

\* item_count++ is a load ...
mx_read(t) ==
  /\ mx_pc[t] = "read"
  /\ mx_tmp' = [mx_tmp EXCEPT ![t] = item_count]
  /\ MXGoto(t, "write")
  /\ UNCHANGED <<mx_recursive, mx_owner, mx_depth, item_count, mx_iter,
                 mxOther>>

\* ... followed by a store
mx_write(t) ==
  /\ mx_pc[t] = "write"
  /\ item_count' = mx_tmp[t] + 1
  /\ MXGoto(t, "unlock")
  /\ UNCHANGED <<mx_recursive, mx_owner, mx_depth, mx_tmp, mx_iter, mxOther>>

\* rtl_mutex_unlock(&mutex) at the end of the critical section; the worker
\* goes on to its next one, or is done
rtl_mutex_unlock(t) ==
  /\ mx_pc[t] = "unlock"
  /\ mx_depth' = mx_depth - 1
  /\ mx_owner' = IF mx_depth = 1 THEN NoThread ELSE mx_owner
  /\ mx_iter' = [mx_iter EXCEPT ![t] = @ + 1]
  /\ MXGoto(t, IF mx_iter[t] + 1 < MXIters THEN "lock" ELSE "done")
  /\ UNCHANGED <<mx_recursive, mx_tmp, item_count, mxOther>>

list_worker_thread(t) ==
  \/ rtl_mutex_lock(t)
  \/ mx_enter(t)
  \/ mx_read(t)
  \/ mx_write(t)
  \/ rtl_mutex_unlock(t)

MXNext == \E t \in MXThreads : list_worker_thread(t)

\* workers that may lock the mutex a second time while they hold it
MXAgainNext ==
  \E t \in MXThreads :
    \/ list_worker_thread(t)
    \/ rtl_mutex_lock_again(t)
    \/ rtl_mutex_unlock_inner(t)

\* ------------------------------------------------------------------------
\* Worker threads that increment one atomic word both with
\* rtl_atomic_fetch_add and, under the mutex, with a load followed by a
\* store (worker_thread_func of test_concurrent_atomic_operations).  The
\* shared counter is the atomic word, the mutex is the one above.
\* ------------------------------------------------------------------------
\* shared_counter = 0, rtl_mutex_init, and the workers at their first
\* statement
WKInit ==
  /\ mx_recursive \in BOOLEAN
  /\ mx_owner = NoThread
  /\ mx_depth = 0
  /\ mx_pc = [t \in MXThreads |-> "add"]
  /\ mx_tmp = [t \in MXThreads |-> 0]
  /\ item_count = 0
  /\ mx_iter = [t \in MXThreads |-> 0]

\* rtl_atomic_fetch_add(data->shared_counter, 1);
wk_fetch_add(t) ==
  /\ mx_pc[t] = "add"
  /\ mx_iter[t] < MXIters
  /\ at_word' = rtl_atomic_fetch_add(at_word, 1)
  /\ MXGoto(t, "lock")
  /\ UNCHANGED <<mx_recursive, mx_owner, mx_depth, mx_tmp, item_count,
                 mx_iter, at_init, at_prog, at_left, at_last, at_rets,
                 lockOther, sqvars, mpvars>>

\* int current = rtl_atomic_load(data->shared_counter);
wk_load(t) ==
  /\ mx_pc[t] = "held"
  /\ mx_tmp' = [mx_tmp EXCEPT ![t] = rtl_atomic_load(at_word)]
  /\ MXGoto(t, "store")
  /\ UNCHANGED <<mx_recursive, mx_owner, mx_depth, item_count, mx_iter,
                 mxOther>>

\* rtl_atomic_store(data->shared_counter, current + 1);
wk_store(t) ==
  /\ mx_pc[t] = "store"
  /\ at_word' = rtl_atomic_store(<<>>, <<>>, mx_tmp[t] + 1).word
  /\ MXGoto(t, "unlock_counter")
  /\ UNCHANGED <<mx_recursive, mx_owner, mx_depth, mx_tmp, item_count,
                 mx_iter, at_init, at_prog, at_left, at_last, at_rets,
                 lockOther, sqvars, mpvars>>

\* rtl_mutex_unlock(data->mutex); the worker sleeps and goes on to its next
\* iteration, or returns
wk_unlock(t) ==
  /\ mx_pc[t] = "unlock_counter"
  /\ mx_depth' = mx_depth - 1
  /\ mx_owner' = IF mx_depth = 1 THEN NoThread ELSE mx_owner
  /\ mx_iter' = [mx_iter EXCEPT ![t] = @ + 1]
  /\ MXGoto(t, IF mx_iter[t] + 1 < MXIters THEN "add" ELSE "done")
  /\ UNCHANGED <<mx_recursive, mx_tmp, item_count, mxOther>>

worker_thread_func(t) ==
  \/ wk_fetch_add(t)
  \/ rtl_mutex_lock(t)
  \/ wk_load(t)
  \/ wk_store(t)
  \/ wk_unlock(t)

WKNext == \E t \in MXThreads : worker_thread_func(t)

\* ---------------------------------------------------------------------
\* race_condition_thread of test_race_condition_detection: every thread
\* runs MXIters iterations of a load / compare-exchange loop on one shared
\* value and counts the compare-exchange calls that returned true.
\* ---------------------------------------------------------------------

\* rtl_atomic_int_t shared_value = 0; the threads start at their first load
RCInit ==
  /\ mx_recursive = FALSE
  /\ mx_owner = NoThread
  /\ mx_depth = 0
  /\ mx_pc = [t \in MXThreads |-> "rc_load"]
  /\ mx_tmp = [t \in MXThreads |-> 0]
  /\ item_count = 0
  /\ mx_iter = [t \in MXThreads |-> 0]
  /\ successful_updates = [t \in MXThreads |-> 0]
  /\ mutexes = [m \in Mutexes |-> NoThread]

\* the end of one iteration of the for loop: the next one, or the return
rc_next_iteration(t) ==
  /\ mx_iter' = [mx_iter EXCEPT ![t] = @ + 1]
  /\ MXGoto(t, IF mx_iter[t] + 1 < MXIters THEN "rc_load" ELSE "done")

\* expected = rtl_atomic_load(data->shared_value); an odd value skips the
\* iteration
rc_load(t) ==
  /\ mx_pc[t] = "rc_load"
  /\ mx_iter[t] < MXIters
  /\ mx_tmp' = [mx_tmp EXCEPT ![t] = rtl_atomic_load(at_word)]
  /\ IF rtl_atomic_load(at_word) % 2 = 0
       THEN MXGoto(t, "rc_cas") /\ UNCHANGED mx_iter
       ELSE rc_next_iteration(t)
  /\ UNCHANGED <<mx_recursive, mx_owner, mx_depth, item_count, mxOther>>

\* if (rtl_atomic_compare_exchange_bool(shared_value, expected, expected + 1))
\* { successful_updates++; break; }  and otherwise the loop loads again
rc_cas(t) ==
  /\ mx_pc[t] = "rc_cas"
  /\ LET r == rtl_atomic_compare_exchange_bool(at_word, mx_tmp[t],
                                               mx_tmp[t] + 1)
     IN  /\ at_word' = r.word
         /\ IF r.ok
              THEN /\ successful_updates' =
                        [successful_updates EXCEPT ![t] = @ + 1]
                   /\ rc_next_iteration(t)
              ELSE /\ MXGoto(t, "rc_load")
                   /\ UNCHANGED <<successful_updates, mx_iter>>
  /\ UNCHANGED <<mx_recursive, mx_owner, mx_depth, mx_tmp, item_count,
                 at_init, at_prog, at_left, at_last, at_rets, mutexes,
                 baseOther, sqvars, mpvars>>

race_condition_thread(t) == rc_load(t) \/ rc_cas(t)

RCNext == \E t \in MXThreads : race_condition_thread(t)

\* ---------------------------------------------------------------------
\* complex_thread of test_complex_synchronization_patterns: every thread
\* runs CXIters iterations of: add one to the shared data, wait until all
\* threads have added, take two mutexes of the array in ascending order
\* and release them in descending order (the pattern of
\* consistent_order_thread), then try one compare-exchange.
\* ---------------------------------------------------------------------

\* thread_data[i].thread_id = i, counted from 0
thread_id(t) == t - 1

\* a mutex order in which the odd threads take mutexes[0] after mutexes[1]
cx_order_crossed(t) ==
  IF thread_id(t) % 2 = 0 THEN <<0, 1>> ELSE <<1, 0>>

\* the two mutexes a thread locks, in the order it locks them: mutexes[0]
\* then mutexes[1] for an even thread_id, mutexes[1] then mutexes[2] for an
\* odd one
cx_order(t) ==
  IF thread_id(t) % 2 = 0 THEN <<0, 1>> ELSE <<1, 2>>

\* shared_data = 0, every mutex initialised, the threads at their first
\* fetch_add
CXInit ==
  /\ mx_recursive = FALSE
  /\ mx_owner = NoThread
  /\ mx_depth = 0
  /\ mx_pc = [t \in CXThreads |-> "cx_add"]
  /\ mx_tmp = [t \in CXThreads |-> 0]
  /\ item_count = 0
  /\ mx_iter = [t \in CXThreads |-> 0]
  /\ successful_updates = [t \in CXThreads |-> 0]
  /\ mutexes = [m \in Mutexes |-> NoThread]

\* the steps of complex_thread that touch only the thread's position
cx_frame ==
  UNCHANGED <<mx_recursive, mx_owner, mx_depth, mx_tmp, item_count,
              mx_iter, atvars, wkvars, baseOther, sqvars, mpvars>>

\* rtl_atomic_fetch_add(data->shared_data, 1);
cx_add(t) ==
  /\ mx_pc[t] = "cx_add"
  /\ mx_iter[t] < CXIters
  /\ at_word' = rtl_atomic_fetch_add(at_word, 1)
  /\ MXGoto(t, "cx_wait")
  /\ UNCHANGED <<mx_recursive, mx_owner, mx_depth, mx_tmp, item_count,
                 mx_iter, at_init, at_prog, at_left, at_last, at_rets,
                 wkvars, baseOther, sqvars, mpvars>>

\* while (rtl_atomic_load(data->shared_data) < 6 * (iter + 1)) sleep: the
\* thread leaves the loop once the load returns enough
cx_wait(t) ==
  /\ mx_pc[t] = "cx_wait"
  /\ ~(rtl_atomic_load(at_word) < NumCXThreads * (mx_iter[t] + 1))
  /\ MXGoto(t, "cx_lock1")
  /\ cx_frame

\* rtl_mutex_lock(&data->mutexes[m]) as the i-th lock of the thread
cx_lock(t, i) ==
  /\ mx_pc[t] = (IF i = 1 THEN "cx_lock1" ELSE "cx_lock2")
  /\ mutexes[cx_order(t)[i]] = NoThread
  /\ mutexes' = [mutexes EXCEPT ![cx_order(t)[i]] = t]
  /\ MXGoto(t, IF i = 1 THEN "cx_lock2" ELSE "cx_unlock2")
  /\ UNCHANGED <<mx_recursive, mx_owner, mx_depth, mx_tmp, item_count,
                 mx_iter, atvars, successful_updates, baseOther, sqvars,
                 mpvars>>

\* rtl_mutex_unlock(&data->mutexes[m]), the second mutex before the first
cx_unlock(t, i) ==
  /\ mx_pc[t] = (IF i = 2 THEN "cx_unlock2" ELSE "cx_unlock1")
  /\ mutexes' = [mutexes EXCEPT ![cx_order(t)[i]] = NoThread]
  /\ MXGoto(t, IF i = 2 THEN "cx_unlock1" ELSE "cx_load")
  /\ UNCHANGED <<mx_recursive, mx_owner, mx_depth, mx_tmp, item_count,
                 mx_iter, atvars, successful_updates, baseOther, sqvars,
                 mpvars>>

\* int expected = rtl_atomic_load(data->shared_data);
cx_load(t) ==
  /\ mx_pc[t] = "cx_load"
  /\ mx_tmp' = [mx_tmp EXCEPT ![t] = rtl_atomic_load(at_word)]
  /\ MXGoto(t, "cx_cas")
  /\ UNCHANGED <<mx_recursive, mx_owner, mx_depth, item_count, mx_iter,
                 mxOther>>

\* rtl_atomic_compare_exchange_bool(shared_data, expected,
\* expected + data->thread_id); the result is dropped and the iteration ends
cx_cas(t) ==
  /\ mx_pc[t] = "cx_cas"
  /\ at_word' = rtl_atomic_compare_exchange_bool(
                  at_word, mx_tmp[t], mx_tmp[t] + thread_id(t)).word
  /\ mx_iter' = [mx_iter EXCEPT ![t] = @ + 1]
  /\ MXGoto(t, IF mx_iter[t] + 1 < CXIters THEN "cx_add" ELSE "done")
  /\ UNCHANGED <<mx_recursive, mx_owner, mx_depth, mx_tmp, item_count,
                 at_init, at_prog, at_left, at_last, at_rets, wkvars,
                 baseOther, sqvars, mpvars>>

complex_thread(t) ==
  \/ cx_add(t)
  \/ cx_wait(t)
  \/ cx_lock(t, 1)
  \/ cx_lock(t, 2)
  \/ cx_unlock(t, 2)
  \/ cx_unlock(t, 1)
  \/ cx_load(t)
  \/ cx_cas(t)

CXNext == \E t \in CXThreads : complex_thread(t)

\* a thread that can take a step is eventually scheduled; the mutexes
\* promise nothing about which waiting thread gets a freed mutex
CXFairness == \A t \in CXThreads : WF_vars(complex_thread(t))

\* ------------------------------------------------------------------------
\* Message passing through atomic words (ordering_thread / reader_thread of
\* test_memory_ordering).  rtl_atomic_store is, step by step, a barrier, a
\* plain store and a barrier; rtl_atomic_load is a compare-and-swap on
\* memory.
\* ------------------------------------------------------------------------
\* flag = 0, data = 0, and the threads at their first statement; the writer
\* is about to pass the value v
MPInit(v) ==
  /\ mp_mem = [w \in {"data", "flag"} |-> 0]
  /\ mp_wbuf = <<>>
  /\ mp_value = v
  /\ mp_pc = [t \in MPThreads |->
               IF t = MPWriter THEN "data_fence" ELSE "load_flag"]
  /\ mp_flag = [t \in MPReaders |-> 0]
  /\ mp_data = [t \in MPReaders |-> 0]

\* the two words with no thread using them
MPIdle ==
  /\ mp_mem = [w \in {"data", "flag"} |-> 0]
  /\ mp_wbuf = <<>>
  /\ mp_value = 0
  /\ mp_pc = [t \in MPThreads |-> "done"]
  /\ mp_flag = [t \in MPReaders |-> 0]
  /\ mp_data = [t \in MPReaders |-> 0]

MPGoto(t, loc) == mp_pc' = [mp_pc EXCEPT ![t] = loc]

\* variant of the barriers of rtl_atomic_store: none is emitted
MPFenceSkip(from, to) ==
  /\ mp_pc[MPWriter] = from
  /\ MPGoto(MPWriter, to)
  /\ UNCHANGED <<mp_mem, mp_wbuf, mp_value, mp_flag, mp_data, mpOther>>

\* __sync_synchronize() of the writer at position from
MPFence(from, to) ==
  /\ mp_pc[MPWriter] = from
  /\ LET f == sync_synchronize(mp_mem, mp_wbuf)
     IN mp_mem' = f.mem /\ mp_wbuf' = f.wbuf
  /\ MPGoto(MPWriter, to)
  /\ UNCHANGED <<mp_value, mp_flag, mp_data, mpOther>>

\* *ptr = value of the writer at position from: a plain store to word
MPStore(from, to, word, value) ==
  /\ mp_pc[MPWriter] = from
  /\ mp_wbuf' = Append(mp_wbuf, <<word, value>>)
  /\ MPGoto(MPWriter, to)
  /\ UNCHANGED <<mp_mem, mp_value, mp_flag, mp_data, mpOther>>

\* rtl_atomic_store(data->data, v): barrier, store, barrier
mp_data_fence == MPFence("data_fence", "data_store")
mp_data_store == MPStore("data_store", "data_fenced", "data", mp_value)
mp_data_fenced == MPFence("data_fenced", "flag_fence")

\* rtl_atomic_store(data->flag, 1): barrier, store, barrier
mp_flag_fence == MPFence("flag_fence", "flag_store")
mp_flag_store == MPStore("flag_store", "flag_fenced", "flag", 1)
mp_flag_fenced == MPFence("flag_fenced", "done")

\* the hardware writes one of the writer's plain stores to memory
mp_drain ==
  /\ \E i \in Drainable(mp_wbuf) :
       /\ mp_mem' = [mp_mem EXCEPT ![mp_wbuf[i][1]] = mp_wbuf[i][2]]
       /\ mp_wbuf' = DropAt(mp_wbuf, i)
  /\ UNCHANGED <<mp_value, mp_pc, mp_flag, mp_data, mpOther>>

ordering_thread ==
  \/ mp_data_fence
  \/ mp_data_store
  \/ mp_data_fenced
  \/ mp_flag_fence
  \/ mp_flag_store
  \/ mp_flag_fenced

\* while (rtl_atomic_load(data->flag) == 0) {}
mp_load_flag(t) ==
  /\ t \in MPReaders
  /\ mp_pc[t] = "load_flag"
  /\ mp_flag' = [mp_flag EXCEPT ![t] = rtl_atomic_load(mp_mem["flag"])]
  /\ MPGoto(t, IF rtl_atomic_load(mp_mem["flag"]) = 0
                 THEN "load_flag" ELSE "load_data")
  /\ UNCHANGED <<mp_mem, mp_wbuf, mp_value, mp_data, mpOther>>

\* read_data = rtl_atomic_load(data->data)
mp_load_data(t) ==
  /\ t \in MPReaders
  /\ mp_pc[t] = "load_data"
  /\ mp_data' = [mp_data EXCEPT ![t] = rtl_atomic_load(mp_mem["data"])]
  /\ MPGoto(t, "done")
  /\ UNCHANGED <<mp_mem, mp_wbuf, mp_value, mp_flag, mpOther>>

reader_thread(t) == mp_load_flag(t) \/ mp_load_data(t)

MPNext ==
  \/ ordering_thread
  \/ mp_drain
  \/ \E t \in MPReaders : reader_thread(t)

\* ------------------------------------------------------------------------
\* One atomic word under concurrent calls (worker_thread_func,
\* test_atomic_operations).  Each call is one indivisible step.
\* ------------------------------------------------------------------------
\* no call made yet
NoCall == [op |-> "none", a |-> 0, b |-> 0, old |-> 0, ret |-> 0]

\* a word holding w and threads with n calls each to make, as program prog
ATInit(w, prog, n) ==
  /\ at_word = w
  /\ at_init = w
  /\ at_prog = prog
  /\ at_left = [t \in ATThreads |-> n]
  /\ at_last = NoCall
  /\ at_rets = {}

\* thread t makes a call: what is common to all of them
ATCall(t, op, a, b, ret) ==
  /\ at_left[t] > 0
  /\ at_left' = [at_left EXCEPT ![t] = @ - 1]
  /\ at_last' = [op |-> op, a |-> a, b |-> b, old |-> at_word, ret |-> ret]
  /\ at_rets' = IF at_prog = "count"
                  THEN at_rets \cup {<<t, at_left[t], ret>>}
                  ELSE at_rets
  /\ UNCHANGED <<at_init, at_prog, atOther>>

\* rtl_atomic_fetch_add(ptr, v)
at_fetch_add(t, v) ==
  /\ at_prog = "count" => v = 1
  /\ at_word' = rtl_atomic_fetch_add(at_word, v)
  /\ ATCall(t, "fetch_add", v, 0, rtl_atomic_fetch_add_ret(at_word, v))

\* rtl_atomic_fetch_sub(ptr, v)
at_fetch_sub(t, v) ==
  /\ at_prog = "mixed"
  /\ at_word' = rtl_atomic_fetch_sub(at_word, v)
  /\ ATCall(t, "fetch_sub", v, 0, rtl_atomic_fetch_sub_ret(at_word, v))

\* rtl_atomic_compare_exchange(ptr, expected, desired)
at_compare_exchange(t, expected, desired) ==
  /\ at_prog = "mixed"
  /\ LET r == rtl_atomic_compare_exchange(at_word, expected, desired)
     IN /\ at_word' = r.word
        /\ ATCall(t, "compare_exchange", expected, desired, r.old)

\* rtl_atomic_compare_exchange_bool(ptr, expected, desired)
at_compare_exchange_bool(t, expected, desired) ==
  /\ at_prog = "mixed"
  /\ LET r == rtl_atomic_compare_exchange_bool(at_word, expected, desired)
     IN /\ at_word' = r.word
        /\ ATCall(t, "compare_exchange_bool", expected, desired,
                  IF r.ok THEN 1 ELSE 0)

ATNext ==
  \E t \in ATThreads, a \in ATOperands :
    \/ at_fetch_add(t, a)
    \/ at_fetch_sub(t, a)
    \/ \E b \in ATOperands :
         \/ at_compare_exchange(t, a, b)
         \/ at_compare_exchange_bool(t, a, b)

\* rtl_atomic_load(ptr): the compare-and-swap of 0 with 0, with what it
\* leaves in the word and what it returns
at_load(t) ==
  /\ at_prog = "mixed"
  /\ LET r == sync_val_compare_and_swap(at_word, 0, 0)
     IN /\ at_word' = r.word
        /\ ATCall(t, "load", 0, 0, r.old)

\* the calls of ATNext with loads among them
ATLoadNext ==
  \/ ATNext
  \/ \E t \in ATThreads : at_load(t)

\* no compare-exchange counted, every mutex of the array free
WKIdle ==
  /\ successful_updates = [t \in MXThreads |-> 0]
  /\ mutexes = [m \in Mutexes |-> NoThread]

\* neither the lock-free queue, nor the mutex, nor the atomic words are in
\* use
LFInit ==
  /\ SQInit(1) /\ MXIdle /\ MPIdle /\ ATInit(0, "count", 0)
  /\ WKIdle

\* ------------------------------------------------------------------------
\* Specifications: one per primitive, each on a freshly initialised object
\* ------------------------------------------------------------------------
\* all three objects initialised with the smallest parameters
Init ==
  /\ MQInit(1) /\ LFInit
  /\ RWInit /\ QInit(1) /\ BInit(1)

\* a queue of any capacity 1..MaxCapacity
InitQ ==
  /\ MQInit(1) /\ LFInit
  /\ RWInit /\ BInit(1) /\ \E c \in 1..MaxCapacity : QInit(c)

\* a barrier of any expected_count 1..MaxExpected
InitB ==
  /\ MQInit(1) /\ LFInit
  /\ RWInit /\ QInit(1) /\ \E n \in 1..MaxExpected : BInit(n)

SpecQ == InitQ /\ [][QNext]_vars

SpecQObs == InitQ /\ [][QObsNext]_vars

SpecB == InitB /\ [][BNext]_vars

SpecRW == Init /\ [][RWNext]_vars

\* Fair scheduling of the reader-writer lock: a thread inside a call, or
\* holding the lock, keeps taking steps, and a thread that keeps finding the
\* mutex free at some moments eventually gets it.  Starting a new call is
\* not forced.
RWRun(t) ==
  \/ rl_load_wa(t) \/ rl_load_ww(t) \/ rl_loop_unlock(t) \/ rl_sleep(t)
  \/ rl_inc(t) \/ rl_unlock(t) \/ rtl_rw_lock_read_unlock(t)
  \/ wl_register(t) \/ wl_load_r(t) \/ wl_load_wa(t) \/ wl_loop_unlock(t)
  \/ wl_sleep(t) \/ wl_unregister(t) \/ wl_set_active(t) \/ wl_unlock(t)
  \/ rtl_rw_lock_write_unlock(t)

RWAcquire(t) == rl_mutex_lock(t) \/ wl_mutex_lock(t) \/ wl_mutex_relock(t)

RWFairness ==
  \A t \in RWThreads : WF_vars(RWRun(t)) /\ SF_vars(RWAcquire(t))

FairSpecRW == Init /\ [][RWNext]_vars /\ RWFairness

\* The barrier as test_barrier_synchronization uses it: expected_count is the
\* number of threads, and every thread calls wait MaxCalls times in succession.
InitBAll ==
  /\ MQInit(1) /\ LFInit
  /\ RWInit /\ QInit(1) /\ BInit(NumBThreads)

\* Fair scheduling of the barrier's threads: a thread keeps running its
\* program (calling wait and stepping inside it), and a thread that polls
\* the mutex eventually gets it.
BRun(t) ==
  \/ barrier_wait_call(t) \/ bw_load_gen(t) \/ bw_inc(t) \/ bw_check(t)
  \/ bw_reset(t) \/ bw_gen_inc(t) \/ bw_loop(t) \/ bw_loop_unlock(t)
  \/ bw_sleep(t) \/ bw_unlock(t)

BAcquire(t) == bw_mutex_lock(t)

BFairness == \A t \in BThreads : WF_vars(BRun(t)) /\ SF_vars(BAcquire(t))

FairSpecB == InitBAll /\ [][BNext]_vars /\ BFairness

\* The lock as test_reader_writer_pattern uses it: every thread runs
\* rw_thread, OpsPerThread lock / unlock pairs, and returns.
RWInitTest ==
  /\ rw_mutex = NoThread
  /\ readers = 0
  /\ writers_waiting = 0
  /\ writer_active = 0
  /\ rw_pc = [t \in RWThreads |-> "idle"]
  /\ rw_left = [t \in RWThreads |-> OpsPerThread]

InitRWTest ==
  /\ MQInit(1) /\ LFInit
  /\ RWInitTest /\ QInit(1) /\ BInit(1)

SpecRWTest == InitRWTest /\ [][RWNext]_vars

\* Fair scheduling of the queue's threads: a thread inside a call keeps
\* stepping and a thread waiting for the mutex eventually gets it whenever
\* the mutex keeps being released.  Starting a call is not forced.
QRun(t) ==
  \/ enq_check(t) \/ enq_full_unlock(t) \/ enq_load_tail(t) \/ enq_write(t)
  \/ enq_store_tail(t) \/ enq_inc_size(t) \/ enq_unlock(t)
  \/ deq_check(t) \/ deq_empty_unlock(t) \/ deq_load_head(t) \/ deq_read(t)
  \/ deq_store_head(t) \/ deq_dec_size(t) \/ deq_unlock(t)

QAcquire(t) == enq_mutex_lock(t) \/ deq_mutex_lock(t)

\* (only the thread that holds the mutex has a QRun step, so one weak
\* fairness condition covers every thread)
QFairness ==
  /\ WF_vars(\E t \in QThreads : QRun(t))
  /\ \A t \in QThreads : SF_vars(QAcquire(t))

FairSpecQ == Init /\ [][QNext]_vars /\ QFairness

\* a queue of any capacity 1..MaxCapacity whose allocation may have failed
InitQAlloc ==
  /\ MQInit(1) /\ LFInit
  /\ RWInit /\ BInit(1)
  /\ \E c \in 1..MaxCapacity, ok \in BOOLEAN : QInitAlloc(c, ok)

SpecQAlloc == InitQAlloc /\ [][QAllocNext]_vars

\* a lock-free queue of any capacity 1..MQMaxCapacity
InitMQ ==
  /\ RWInit /\ QInit(1) /\ BInit(1)
  /\ \E c \in 1..MQMaxCapacity : MQInit(c)
  /\ LFInit

SpecMQ == InitMQ /\ [][MQNext]_vars

\* a lock-free queue of capacity 1: every index uses the same slot
InitMQOne ==
  /\ RWInit /\ QInit(1) /\ BInit(1)
  /\ MQInit(1) /\ LFInit

\* the system as a whole keeps taking steps; no thread is promised a turn
FairSpecMQ == InitMQOne /\ [][MQNext]_vars /\ WF_vars(MQNext)

\* a single-producer single-consumer queue of any capacity
\* 1..SQMaxCapacity
InitSQ ==
  /\ RWInit /\ QInit(1) /\ BInit(1) /\ MQInit(1)
  /\ \E c \in 1..SQMaxCapacity : SQInit(c)
  /\ MXIdle /\ MPIdle /\ ATInit(0, "count", 0) /\ WKIdle

SpecSQ == InitSQ /\ [][SQNext]_vars

\* the mutex and its workers, on either build
InitMX ==
  /\ RWInit /\ QInit(1) /\ BInit(1) /\ MQInit(1)
  /\ SQInit(1)
  /\ MXInit /\ MPIdle /\ ATInit(0, "count", 0) /\ WKIdle

SpecMX == InitMX /\ [][MXNext]_vars

SpecMXAgain == InitMX /\ [][MXAgainNext]_vars

\* the counter, the mutex and the workers of
\* test_concurrent_atomic_operations
InitWK ==
  /\ RWInit /\ QInit(1) /\ BInit(1) /\ MQInit(1)
  /\ SQInit(1)
  /\ WKInit /\ MPIdle /\ ATInit(0, "count", 0) /\ WKIdle

SpecWK == InitWK /\ [][WKNext]_vars

InitRC ==
  /\ RWInit /\ QInit(1) /\ BInit(1) /\ MQInit(1)
  /\ SQInit(1) /\ RCInit /\ MPIdle /\ ATInit(0, "count", 0)

SpecRC == InitRC /\ [][RCNext]_vars

InitCX ==
  /\ RWInit /\ QInit(1) /\ BInit(1) /\ MQInit(1)
  /\ SQInit(1) /\ CXInit /\ MPIdle /\ ATInit(0, "count", 0)

FairSpecCX == InitCX /\ [][CXNext]_vars /\ CXFairness

\* the two words of test_memory_ordering, for any value 1..MPMaxValue
InitMP ==
  /\ RWInit /\ QInit(1) /\ BInit(1) /\ MQInit(1)
  /\ SQInit(1) /\ MXIdle /\ ATInit(0, "count", 0) /\ WKIdle
  /\ \E v \in 1..MPMaxValue : MPInit(v)

SpecMP == InitMP /\ [][MPNext]_vars

\* an atomic word holding any operand value, under either program
InitAT ==
  /\ RWInit /\ QInit(1) /\ BInit(1) /\ MQInit(1)
  /\ SQInit(1) /\ MXIdle /\ MPIdle /\ WKIdle
  /\ \E w \in ATOperands, prog \in {"count", "mixed"} :
       ATInit(w, prog, ATCalls)

SpecAT == InitAT /\ [][ATNext]_vars

SpecATLoad == InitAT /\ [][ATLoadNext]_vars

\* ------------------------------------------------------------------------
\* Properties of the reader-writer lock
\* ------------------------------------------------------------------------
\* threads between the return of read_lock / write_lock and the unlock
ReadHolders == {t \in RWThreads : rw_pc[t] = "reading"}
WriteHolders == {t \in RWThreads : rw_pc[t] = "writing"}

\* threads inside the polling loop of read_lock
BlockedReaders ==
  {t \in RWThreads : rw_pc[t] \in {"rl_loop_unlock", "rl_sleep", "rl_relock"}}

\* C1: in every reachable state writer_active = 1 implies readers = 0, and
\* writer_active is never greater than 1 (nor negative).
C1_MutualExclusion ==
  /\ writer_active \in {0, 1}
  /\ writer_active = 1 => readers = 0

\* C1 witness: a writer is active while a reader polls inside read_lock
C1_Witness == writer_active = 1 /\ BlockedReaders # {}

\* C2: no thread holds a read lock while another holds the write lock, and
\* two threads never hold the write lock together; several threads may hold
\* read locks together.
C2_Exclusion ==
  /\ WriteHolders # {} => ReadHolders = {}
  /\ Cardinality(WriteHolders) <= 1

\* C2 witness: all reader threads hold a read lock at once, writers queue up
C2_Witness ==
  /\ Cardinality(ReadHolders) = NumReaders
  /\ NumReaders >= 2
  /\ writers_waiting > 0

\* C9: readers is never incremented, and no read_lock call returns, in a
\* state where a writer is waiting or active.
C9_WriterPreference ==
  [][ /\ readers' > readers => (writers_waiting = 0 /\ writer_active = 0)
      /\ \A t \in RWThreads :
            (rw_pc[t] # "reading" /\ rw_pc'[t] = "reading")
               => (writers_waiting = 0 /\ writer_active = 0)
    ]_vars

\* C9 witness: a writer is registered as waiting, none is active, and a
\* reader that called read_lock is kept in the polling loop
C9_Witness ==
  /\ writers_waiting > 0
  /\ writer_active = 0
  /\ BlockedReaders # {}

\* C10: under fair scheduling, whenever a writer is registered as waiting,
\* eventually a writer holds the lock, whatever the readers do.
C10_WriterNotStarved == (writers_waiting > 0) ~> (writer_active = 1)

\* C10 witness: a writer waits while every reader thread holds a read lock
C10_Witness ==
  /\ writers_waiting > 0
  /\ writer_active = 0
  /\ readers = NumReaders

\* ------------------------------------------------------------------------
\* Properties of the bounded queue
\* ------------------------------------------------------------------------
IsPrefix(a, b) ==
  /\ Len(a) <= Len(b)
  /\ \A i \in 1..Len(a) : a[i] = b[i]

\* number of positions of sequence a that hold x
Occurrences(x, a) == Cardinality({i \in 1..Len(a) : a[i] = x})

\* C4: the successful dequeues return the payload handles in exactly the
\* order in which the successful enqueues went through the queue mutex.
C4_Fifo == IsPrefix(deqOrder, enqOrder)

\* C4 witness: every payload has been dequeued, the enqueues did not go in
\* thread order, and there were more payloads than slots (the ring wrapped)
C4_Witness ==
  /\ Len(deqOrder) = NumProducers * ItemsPerProducer
  /\ Len(deqOrder) > capacity
  /\ enqOrder[1] # Handle(1, 1)

\* the queue is drained: it is empty and no call is in flight
Drained == size = 0 /\ \A t \in QThreads : q_pc[t] = "idle"

\* C5: once the queue is drained, every payload whose enqueue returned 1 has
\* been returned by exactly one successful dequeue, and nothing else has.
C5_Conservation ==
  Drained =>
    /\ Len(deqOrder) = Len(enqOrder)
    /\ \A h \in AllHandles :
          /\ Occurrences(h, enqOrder) <= 1
          /\ Occurrences(h, deqOrder) = Occurrences(h, enqOrder)

\* C5 witness: drained after every producer got its payloads through
C5_Witness ==
  /\ Drained
  /\ \A t \in Producers : produced[t] = ItemsPerProducer
  /\ NumProducers >= 2 /\ NumConsumers >= 2

\* --- the atomic bounded FIFO queue that the calls are compared with ---
QPendingAt ==
  {"enq_lock", "enq_check", "enq_load_tail", "enq_write", "enq_store_tail",
   "enq_inc_size",
   "deq_lock", "deq_check", "deq_load_head", "deq_read", "deq_store_head",
   "deq_dec_size"}

AbsOp(t) ==
  IF q_pc[t] = "idle" THEN "none"
  ELSE IF t \in Producers THEN "enq" ELSE "deq"

\* what the atomic queue knows of thread t: idle, a call that has not taken
\* effect yet (pending), or a call that has taken effect and not returned
AbsThread(t) ==
  IF q_pc[t] = "idle"
    THEN [st |-> "idle", op |-> "none", ret |-> 0, val |-> NoValue]
  ELSE IF q_pc[t] \in QPendingAt
    THEN [st |-> "pending", op |-> AbsOp(t), ret |-> 0, val |-> q_arg[t]]
  ELSE [st |-> "done", op |-> AbsOp(t),
        ret |-> IF q_pc[t] \in {"enq_unlock", "deq_unlock"} THEN 1 ELSE 0,
        val |-> IF AbsOp(t) = "enq" THEN q_arg[t] ELSE q_out[t]]

absS == [t \in QThreads |-> AbsThread(t)]

\* the content of the atomic queue: the `size` slots from the head index; a
\* dequeue takes effect when it decrements size, after it has moved head
absHead ==
  IF \E t \in QThreads : q_pc[t] = "deq_dec_size"
    THEN q_idx[CHOOSE t \in QThreads : q_pc[t] = "deq_dec_size"]
    ELSE head

absQ == [i \in 1..size |-> buffer[(absHead + i - 1) % capacity]]

AbsIdle == [st |-> "idle", op |-> "none", ret |-> 0, val |-> NoValue]

AbsInvoke(t) ==
  /\ absS[t].st = "idle"
  /\ \E op \in {"enq", "deq"} :
       \E v \in IF op = "enq" THEN AllHandles ELSE {NoValue} :
         absS' = [absS EXCEPT
                    ![t] = [st |-> "pending", op |-> op, ret |-> 0, val |-> v]]
  /\ absQ' = absQ
  /\ q_resp' = NoResp

AbsTakeEffect(t) ==
  /\ absS[t].st = "pending"
  /\ q_resp' = NoResp
  /\ IF absS[t].op = "enq"
       THEN IF Len(absQ) = capacity
              THEN /\ absQ' = absQ
                   /\ absS' = [absS EXCEPT ![t].st = "done", ![t].ret = 0]
              ELSE /\ absQ' = Append(absQ, absS[t].val)
                   /\ absS' = [absS EXCEPT ![t].st = "done", ![t].ret = 1]
       ELSE IF Len(absQ) = 0
              THEN /\ absQ' = absQ
                   /\ absS' = [absS EXCEPT ![t].st = "done", ![t].ret = 0]
              ELSE /\ absQ' = Tail(absQ)
                   /\ absS' = [absS EXCEPT ![t].st = "done", ![t].ret = 1,
                                           ![t].val = Head(absQ)]

AbsReturn(t) ==
  /\ absS[t].st = "done"
  /\ absS' = [absS EXCEPT ![t] = AbsIdle]
  /\ absQ' = absQ
  /\ q_resp' = Resp(t, absS[t].op, absS[t].ret, absS[t].val)

\* a step inside a call that the atomic queue does not see
AbsInternal ==
  /\ q_resp' = NoResp
  /\ UNCHANGED <<absQ, absS>>

AbsNext ==
  \/ AbsInternal
  \/ \E t \in QThreads : AbsInvoke(t) \/ AbsTakeEffect(t) \/ AbsReturn(t)

\* C6: every history of enqueue and dequeue calls is a history of an atomic
\* bounded FIFO queue of the same capacity: each call takes effect in one
\* step between its invocation and its return, and returns what the atomic
\* queue returns at that step.
C6_Linearizable ==
  /\ absQ = <<>> /\ \A t \in QThreads : absS[t] = AbsIdle
  /\ [][AbsNext]_<<absQ, absS, q_resp>>

\* C6 witness: a dequeue has taken a payload and not returned yet while the
\* queue still holds one and another thread waits for the mutex
C6_Witness ==
  \E t, u \in QThreads :
    /\ q_pc[t] = "deq_unlock"
    /\ q_pc[u] = "enq_lock"
    /\ Len(absQ) >= 1

\* C7: an enqueue returns 0 iff the size it finds under the mutex equals the
\* capacity, and a dequeue returns 0 iff the size it finds is 0.
C7_Boundary ==
  [][ \A t \in QThreads :
        (q_resp'.thread = t /\ q_pc[t] # "idle") =>
          /\ q_resp'.op = "enq" => (q_resp'.ret = 0 <=> q_seen[t] = capacity)
          /\ q_resp'.op = "deq" => (q_resp'.ret = 0 <=> q_seen[t] = 0)
    ]_vars

\* C7 witness: an enqueue is about to return 0 from a full queue of the
\* largest capacity
C7_Witness ==
  \E t \in Producers :
    /\ q_pc[t] = "enq_full_unlock"
    /\ size = capacity
    /\ capacity = MaxCapacity

\* C8: 0 <= size <= capacity in every state, also in the middle of a call,
\* and so is every value that rtl_pc_queue_size returns.
C8_SizeBound ==
  /\ 0 <= size /\ size <= capacity
  /\ q_obs[1] = "size" => (0 <= q_obs[2] /\ q_obs[2] <= capacity)

\* C8 witness: rtl_pc_queue_size returns the capacity while a dequeue is in
\* the middle of its update (head moved, size not yet decremented)
C8_Witness ==
  /\ q_obs = <<"size", capacity>>
  /\ \E t \in Consumers : q_pc[t] = "deq_dec_size"

\* ------------------------------------------------------------------------
\* Properties of the barrier
\* ------------------------------------------------------------------------
\* C3: a call of rtl_barrier_wait returns only when expected_count calls
\* (itself included) have arrived in the generation it captured; with fewer
\* arrivals in that generation it does not return.
C3_Rendezvous ==
  [][ \A t \in BThreads :
        (b_pc[t] = "bw_unlock" /\ b_pc'[t] = "idle") =>
          arrivals[b_gen[t]] = expected_count
    ]_vars

\* C3 witness: a thread that had to wait is about to return from the second
\* rendezvous of a barrier for all the threads, while another still polls
C3_Witness ==
  /\ expected_count = NumBThreads
  /\ NumBThreads >= 2
  /\ \E t, u \in BThreads :
       /\ b_pc[t] = "bw_unlock"
       /\ b_gen[t] = 1
       /\ b_mutex = t
       /\ generation = 2
       /\ b_pc[u] \in {"bw_sleep", "bw_relock"}
       /\ b_gen[u] = 1

\* the thread that holds the barrier's mutex inside the tripping branch of wait
Tripping(t) == b_mutex = t /\ b_pc[t] \in {"bw_reset", "bw_gen_inc"}

\* C11: generation changes only by +1, and only by the thread whose arrival
\* made count equal expected_count, after that thread has reset count to 0 and
\* without releasing the mutex in between; count goes back to 0 only in that
\* reset (from expected_count), and every reset is followed, in the same
\* mutex-held section, by the increment of generation.
C11_GenerationAccounting ==
  [][ /\ generation' # generation =>
           /\ generation' = generation + 1
           /\ count = 0 /\ count' = 0
           /\ \E t \in BThreads :
                /\ Tripping(t) /\ b_pc[t] = "bw_gen_inc"
                /\ b_gen[t] = generation
                /\ arrivals[generation] = expected_count
      /\ count' # count =>
           \/ count' = count + 1
           \/ /\ count' = 0
              /\ count = expected_count
              /\ generation' = generation
              /\ \E t \in BThreads :
                   /\ Tripping(t) /\ b_pc[t] = "bw_reset"
                   /\ b_pc'[t] = "bw_gen_inc"
      /\ \A t \in BThreads :
           /\ (b_pc'[t] = "bw_gen_inc" /\ b_pc[t] # "bw_gen_inc") =>
                 (b_pc[t] = "bw_reset" /\ count = expected_count /\ count' = 0)
           /\ (b_pc[t] = "bw_gen_inc" /\ b_pc'[t] # "bw_gen_inc") =>
                 generation' = generation + 1
           /\ b_pc[t] \in {"bw_reset", "bw_gen_inc"} =>
                 (b_mutex = t /\ b_mutex' = t)
    ]_vars

\* C11 witness: the second trip of a barrier for several threads; count has
\* been reset and generation is about to go from 1 to 2
C11_Witness ==
  /\ expected_count >= 2
  /\ generation = 1
  /\ count = 0
  /\ \E t \in BThreads : Tripping(t) /\ b_pc[t] = "bw_gen_inc"

\* every thread has returned from all its MaxCalls calls of wait
BDone == \A t \in BThreads : b_pc[t] = "idle" /\ b_calls[t] = MaxCalls

\* C12: with expected_count = number of threads and every thread calling wait
\* MaxCalls times, under fair scheduling all the calls return, and then
\* generation is MaxCalls above its initial value 0 and count is 0.
C12_BarrierReuse ==
  /\ <>BDone
  /\ [](BDone => (generation = MaxCalls /\ count = 0))

\* C12 witness: a fast thread is already waiting in its second phase while a
\* slower thread of the first phase has not yet seen that the barrier tripped
C12_Witness ==
  /\ expected_count = NumBThreads
  /\ generation = 1
  /\ \E t, u \in BThreads :
       /\ b_calls[t] = 1 /\ b_gen[t] = 1
       /\ b_pc[t] \in {"bw_loop", "bw_loop_unlock", "bw_sleep", "bw_relock"}
       /\ b_calls[u] = 0 /\ b_gen[u] = 0
       /\ b_pc[u] \in {"bw_sleep", "bw_relock"}

\* C13: while no thread holds the barrier's mutex, 0 <= count < expected_count.
C13_CountRange ==
  b_mutex = NoThread => (0 <= count /\ count < expected_count)

\* C13 witness: after a first trip, all but one thread of the next phase have
\* arrived and released the mutex in their polling loop
C13_Witness ==
  /\ b_mutex = NoThread
  /\ expected_count >= 2
  /\ generation >= 1
  /\ count = expected_count - 1

\* ------------------------------------------------------------------------
\* Reader-writer lock after its threads have finished
\* ------------------------------------------------------------------------
\* every thread has performed all its lock / unlock pairs and returned
RWJoined == \A t \in RWThreads : rw_pc[t] = "idle" /\ rw_left[t] = 0

\* C14: whenever every thread is outside the lock's calls and holds nothing
\* (each has performed only complete lock / unlock pairs), and so in
\* particular after all threads have finished, the three counters are 0.
C14_Quiescence ==
  (\A t \in RWThreads : rw_pc[t] = "idle") =>
    (readers = 0 /\ writers_waiting = 0 /\ writer_active = 0)

\* C14 witness: all readers and writers have finished all their operations
C14_Witness == RWJoined /\ OpsPerThread >= 1

\* ------------------------------------------------------------------------
\* Bounded queue: failing calls
\* ------------------------------------------------------------------------
\* positions of a call that found the queue full / empty and will return 0
QFailing == {"enq_full_unlock", "deq_empty_unlock"}

\* C15: a call that returns 0 changes nothing.  From its full / empty test to
\* its return it holds the mutex, and every step taken meanwhile, by it or by
\* another thread, leaves head, tail, size, capacity and all buffer slots as
\* they are; the output parameter of a failing dequeue is never written.
C15_FailedOpsFrame ==
  [][ /\ \A t \in QThreads :
           /\ (q_pc'[t] \in QFailing /\ q_pc[t] \notin QFailing) =>
                 /\ q_pc[t] \in {"enq_check", "deq_check"}
                 /\ q_mutex = t /\ q_mutex' = t
                 /\ qshared' = qshared
                 /\ q_out'[t] = q_out[t]
           /\ q_pc[t] \in QFailing =>
                 /\ q_mutex = t
                 /\ qshared' = qshared
                 /\ q_out[t] = NoValue /\ q_out'[t] = NoValue
      /\ (q_resp'.op # "none" /\ q_resp'.ret = 0) =>
           /\ q_pc[q_resp'.thread] \in QFailing
           /\ q_resp'.op = "deq" => q_resp'.val = NoValue
    ]_vars

\* C15 witness: an enqueue has found a queue of capacity 2 or more full and
\* is about to return 0
C15_Witness ==
  /\ capacity >= 2
  /\ size = capacity
  /\ Len(enqOrder) = capacity
  /\ \E t \in Producers : q_pc[t] = "enq_full_unlock"

\* how far a call has got: every step of a call moves it to a later position
QRank(loc) ==
  CASE loc = "idle" -> 0
    [] loc \in {"enq_lock", "deq_lock"} -> 1
    [] loc \in {"enq_check", "deq_check"} -> 2
    [] loc \in {"enq_load_tail", "deq_load_head"} -> 3
    [] loc \in {"enq_write", "deq_read"} -> 4
    [] loc \in {"enq_store_tail", "deq_store_head"} -> 5
    [] loc \in {"enq_inc_size", "deq_dec_size"} -> 6
    [] loc \in {"enq_unlock", "deq_unlock"} -> 7
    [] loc \in QFailing -> 8

\* C16: enqueue and dequeue never wait for space or items.  A call never goes
\* back to an earlier position (it has no loop); a call that finds the queue
\* full / empty returns 0; a thread outside a call does not hold the mutex;
\* and under fair scheduling every call returns (no thread stays inside a
\* call for ever: it is outside of its calls again and again).
C16_NeverBlocks ==
  /\ [][ \A t \in QThreads :
           /\ q_pc'[t] # q_pc[t] =>
                (q_pc'[t] = "idle" \/ QRank(q_pc'[t]) > QRank(q_pc[t]))
           /\ (q_pc[t] = "enq_check" /\ q_pc'[t] # q_pc[t] /\ size >= capacity)
                => q_pc'[t] = "enq_full_unlock"
           /\ (q_pc[t] = "deq_check" /\ q_pc'[t] # q_pc[t] /\ size = 0)
                => q_pc'[t] = "deq_empty_unlock"
           /\ (q_pc[t] \in QFailing /\ q_pc'[t] # q_pc[t]) =>
                (q_pc'[t] = "idle" /\ q_resp' = Resp(t, q_resp'.op, 0, q_resp'.val))
      ]_vars
  /\ [](\A t \in QThreads : q_pc[t] = "idle" => q_mutex # t)
  /\ \A t \in QThreads : []<>(q_pc[t] = "idle")

\* C16 witness: an enqueue call is about to return 0 from a full queue while
\* another producer and a consumer, inside their calls, wait for the mutex
C16_Witness ==
  /\ size = capacity
  /\ \E t, u \in Producers :
       /\ q_pc[t] = "enq_full_unlock"
       /\ q_pc[u] = "enq_lock"
  /\ \E c \in Consumers : q_pc[c] = "deq_lock"

\* ------------------------------------------------------------------------
\* Bounded queue: failure of the allocator in rtl_pc_queue_init
\* ------------------------------------------------------------------------
\* C17: when rtl_malloc fails, rtl_pc_queue_init reports failure to its
\* caller, and the queue left behind is not usable: no enqueue or dequeue
\* gets to write or read a slot of the absent buffer.
C17_InitFailure ==
  buffer = NullBuffer =>
    /\ rtl_pc_queue_init_reports_failure(FALSE)
    /\ \A t \in QThreads : q_pc[t] \notin {"enq_write", "deq_read"}

\* ------------------------------------------------------------------------
\* Properties of the lock-free multi-producer multi-consumer queue
\* ------------------------------------------------------------------------
\* the queue is drained: no call is in progress and head has caught up with
\* tail
MQDrained ==
  /\ \A t \in MQThreads : mq_pc[t] = "idle"
  /\ mq_head = mq_tail

MQOwning == {"enq_write", "enq_mark", "deq_read", "deq_mark"}

\* thread t has claimed the slot of its index and is using it
MQOwns(t) == mq_pc[t] \in MQOwning

MQCasFails(t) ==
  \/ mq_pc[t] = "enq_cas" /\ mq_pc'[t] = "enq_load_tail"
  \/ mq_pc[t] = "deq_cas" /\ mq_pc'[t] = "deq_load_head"

\* thread t is retrying: its last compare-and-swap failed and it has not
\* yet loaded tail / head again
MQRetrying(t) ==
  /\ mq_pc[t] \in {"enq_load_tail", "deq_load_head"}
  /\ mq_beaten[t]

\* C20: global progress.  A compare-and-swap of a thread fails only when
\* the compare-and-swap of another thread has succeeded since the thread
\* loaded the index, and whenever some enqueue or dequeue is retrying, some
\* call of some thread returns within finitely many steps of the system.
C20_GlobalProgress ==
  /\ [][\A t \in MQThreads : MQCasFails(t) => mq_beaten[t]]_vars
  /\ (\E t \in MQThreads : MQRetrying(t)) ~> (mq_resp # NoResp)

\* C20 witness: a producer and a consumer are both retrying after a failed
\* compare-and-swap
C20_Witness ==
  /\ \E t \in MQProducers : MQRetrying(t)
  /\ \E u \in MQConsumers : MQRetrying(u)

\* ------------------------------------------------------------------------
\* Properties of the lock-free single-producer single-consumer queue
\* ------------------------------------------------------------------------
\* the queue is drained: neither thread is inside a call and head has
\* caught up with tail
SQDrained ==
  /\ \A t \in SQThreads : sq_pc[t] = "idle"
  /\ sq_head = sq_tail

\* C21: FIFO.  With the one producer and the one consumer running
\* concurrently, the payloads returned by the successful dequeues are at
\* every moment the first payloads accepted by the successful enqueues, in
\* the same order (no gap, no duplicate, no reordering), and once the queue
\* is drained the two sequences are equal.
C21_SpscFifo ==
  /\ IsPrefix(sq_deq, sq_enq)
  /\ SQDrained => sq_deq = sq_enq

\* C21 witness: every payload has gone through a queue that holds one
\* payload at a time, so that its slots were reused
C21_Witness ==
  /\ SQDrained
  /\ sq_capacity = 2
  /\ Len(sq_deq) = SQItems
  /\ sq_deq = [i \in 1..SQItems |-> i]

\* C22: publish ordering.  The store of the payload into buffer[tail] is in
\* memory before the advanced tail is: outside the window between the
\* payload store and the publish no payload store is pending, and whenever
\* the consumer has observed head # tail and is about to read buffer[head],
\* no store to that slot is pending and the slot holds the payload of the
\* oldest accepted enqueue not yet dequeued.
C22_PublishOrdering ==
  /\ sq_pc[SQProducer] # "enq_publish" => sq_wbuf = <<>>
  /\ sq_pc[SQConsumer] = "deq_read" =>
       /\ \A i \in 1..Len(sq_wbuf) : sq_wbuf[i][1] # sq_idx[SQConsumer]
       /\ Len(sq_deq) < Len(sq_enq)
       /\ sq_buffer[sq_idx[SQConsumer]] = sq_enq[Len(sq_deq) + 1]

\* C22 witness: the consumer is about to read a slot while the producer's
\* payload store for the next enqueue has not reached memory yet
C22_Witness ==
  /\ sq_pc[SQConsumer] = "deq_read"
  /\ sq_pc[SQProducer] = "enq_publish"
  /\ sq_wbuf # <<>>

\* this step is the full / empty test of the thread's call and fails it
SQFails(t) ==
  /\ sq_pc[t] \in {"enq_check", "deq_check"}
  /\ sq_pc'[t] = "idle"
  /\ sq_resp'.ret = 0

\* this step is the full / empty test of the thread's call and passes it
SQPasses(t) ==
  /\ sq_pc[t] \in {"enq_check", "deq_check"}
  /\ sq_pc'[t] \in {"enq_write", "deq_read"}

\* C23: occupancy.  In every reachable state the number of occupied slots
\* (payloads accepted and not yet dequeued) equals (tail - head) mod
\* capacity and never exceeds the capacity; an enqueue fails exactly when
\* (tail + 1) mod capacity == head at its full test, and a dequeue fails
\* exactly when head == tail at its empty test.
C23_Occupancy ==
  /\ [](/\ Len(sq_enq) - Len(sq_deq) = (sq_tail - sq_head) % sq_capacity
        /\ Len(sq_enq) - Len(sq_deq) <= sq_capacity)
  /\ [][ /\ SQFails(SQProducer) => (sq_tail + 1) % sq_capacity = sq_head
         /\ SQPasses(SQProducer) => (sq_tail + 1) % sq_capacity # sq_head
         /\ SQFails(SQConsumer) => sq_head = sq_tail
         /\ SQPasses(SQConsumer) => sq_head # sq_tail ]_vars

\* C23 witness: the producer is at the full test of a full queue whose tail
\* has wrapped around behind head
C23_Witness ==
  /\ sq_pc[SQProducer] = "enq_check"
  /\ sq_capacity >= 2
  /\ (sq_tail + 1) % sq_capacity = sq_head
  /\ sq_tail < sq_head

\* ------------------------------------------------------------------------
\* Properties of the mutex
\* ------------------------------------------------------------------------
\* thread t is between the return of its rtl_mutex_lock and its matching
\* rtl_mutex_unlock
MXInCritical(t) == mx_pc[t] \in {"held", "read", "write", "unlock"}

MXAllDone == \A t \in MXThreads : mx_pc[t] = "done"

\* C24: mutual exclusion.  At most one thread at a time is between a return
\* from rtl_mutex_lock and its matching rtl_mutex_unlock, and it is the one
\* the mutex records; hence when every thread has made its MXIters
\* non-atomic increments of the shared counter inside the critical section,
\* the counter equals the number of threads times MXIters.
C24_MutexExclusion ==
  /\ \A t, u \in MXThreads : (MXInCritical(t) /\ MXInCritical(u)) => t = u
  /\ \A t \in MXThreads : MXInCritical(t) => mx_owner = t
  /\ MXAllDone => item_count = NumMXThreads * MXIters

\* C24 witness: every worker has finished its critical sections
C24_Witness ==
  /\ MXAllDone
  /\ item_count = NumMXThreads * MXIters
  /\ mx_owner = NoThread

\* C25: reentrancy.  A thread that calls rtl_mutex_lock a second time on
\* the mutex it holds does not deadlock: no second lock call is left
\* waiting for its own caller, and a thread that has made its two unlock
\* calls no longer holds the mutex.
C25_MutexReentrancy ==
  \A t \in MXThreads :
    /\ mx_pc[t] # "self_deadlock"
    /\ mx_pc[t] \in {"lock", "done"} => mx_owner # t

\* ------------------------------------------------------------------------
\* Properties of the atomic words
\* ------------------------------------------------------------------------
\* C26: message passing.  After rtl_atomic_store(data, v) followed by
\* rtl_atomic_store(flag, 1) in one thread, a thread whose
\* rtl_atomic_load(flag) has returned 1 and that then calls
\* rtl_atomic_load(data) obtains v: memory never shows the flag set with
\* the old data, and no reader ends with the flag seen and the old data.
C26_MessagePassing ==
  /\ mp_mem["flag"] = 1 => mp_mem["data"] = mp_value
  /\ \A t \in MPReaders :
       (mp_pc[t] = "done" /\ mp_flag[t] = 1) => mp_data[t] = mp_value

\* C26 witness: one reader has seen the flag and obtained the data while the
\* writer has not yet finished its store of the flag and another reader is
\* still waiting for the flag
C26_Witness ==
  /\ mp_pc[MPWriter] = "flag_fenced"
  /\ \E t, u \in MPReaders :
       /\ mp_pc[t] = "done" /\ mp_flag[t] = 1 /\ mp_data[t] = mp_value
       /\ mp_pc[u] = "load_flag"

\* every thread has made all its calls
ATAllDone == \A t \in ATThreads : at_left[t] = 0

\* C27: fetch-and-modify.  rtl_atomic_fetch_add(p, v) returns the value of
\* *p before the call and leaves *p equal to that value plus v;
\* rtl_atomic_fetch_sub(p, v) returns the prior value and leaves it minus v.
\* Each call is indivisible: while the threads do nothing but
\* rtl_atomic_fetch_add(p, 1), the values returned are pairwise distinct
\* and *p has grown by the number of calls, so that NumATThreads threads
\* making ATCalls calls each leave *p increased by NumATThreads * ATCalls.
C27_FetchModify ==
  /\ at_last.op = "fetch_add" =>
       (at_last.ret = at_last.old /\ at_word = at_last.old + at_last.a)
  /\ at_last.op = "fetch_sub" =>
       (at_last.ret = at_last.old /\ at_word = at_last.old - at_last.a)
  /\ at_prog = "count" =>
       /\ Cardinality({r[3] : r \in at_rets}) = Cardinality(at_rets)
       /\ at_word = at_init + Cardinality(at_rets)
       /\ ATAllDone => at_word = at_init + NumATThreads * ATCalls

\* C27 witness: the counting threads have made all their calls
C27_Witness ==
  /\ at_prog = "count"
  /\ ATAllDone
  /\ Cardinality({r[3] : r \in at_rets}) = NumATThreads * ATCalls
  /\ NumATThreads >= 2

\* C28: compare-exchange.  rtl_atomic_compare_exchange_bool(p, expected,
\* desired) returns true iff *p equalled expected when it was called; on
\* true *p has become desired, on false *p is unchanged.
\* rtl_atomic_compare_exchange returns the prior value of *p in both cases
\* and has exchanged exactly when that value equals expected.
C28_CompareExchange ==
  /\ at_last.op = "compare_exchange_bool" =>
       /\ at_last.ret = 1 <=> at_last.old = at_last.a
       /\ at_last.ret = 1 => at_word = at_last.b
       /\ at_last.ret # 1 => (at_last.ret = 0 /\ at_word = at_last.old)
  /\ at_last.op = "compare_exchange" =>
       /\ at_last.ret = at_last.old
       /\ at_last.ret = at_last.a => at_word = at_last.b
       /\ at_last.ret # at_last.a => at_word = at_last.old

\* C28 witness: a compare-exchange has just failed on a word that an
\* earlier call of another kind had changed, and it left the word alone
C28_Witness ==
  /\ at_last.op = "compare_exchange_bool"
  /\ at_last.ret = 0
  /\ at_last.a = at_init
  /\ at_word # at_init
  /\ at_last.b # at_word

\* ------------------------------------------------------------------------
\* Reader starvation under sustained write pressure
\* ------------------------------------------------------------------------
\* writer w has registered in write_lock and not yet returned from it
WriterWaiting(w) ==
  rw_pc[w] \in {"wl_load_r", "wl_load_wa", "wl_loop_unlock", "wl_sleep",
                "wl_relock", "wl_unregister", "wl_set_active"}

\* writer w has set writer_active and not yet called write_unlock
WriterActive(w) == rw_pc[w] \in {"wl_unlock", "writing"}

\* some writer is waiting or active
WritePressure == \E w \in Writers : WriterWaiting(w) \/ WriterActive(w)

\* thread t is inside read_lock and has not yet incremented readers
InReadLock(t) ==
  rw_pc[t] \in {"rl_lock", "rl_load_wa", "rl_load_ww", "rl_loop_unlock",
                "rl_sleep", "rl_relock"}

\* A schedule of the lock's own steps in which the writers sustain the
\* pressure once it is there: a writer calls write_unlock only when another
\* writer has already registered.  Every step is a step of RWNext.
StarveNext == RWNext /\ (WritePressure => WritePressure')

\* The scheduler runs every thread's enabled step that the schedule admits,
\* lets a thread that polls the mutex get it, and the writers keep calling
\* write_lock.
StarveFairness ==
  /\ \A t \in RWThreads :
        /\ WF_vars(RWRun(t) /\ (WritePressure => WritePressure'))
        /\ SF_vars(RWAcquire(t))
  /\ \A w \in Writers : WF_vars(write_lock_call(w))

SpecRWStarve == Init /\ [][StarveNext]_vars /\ StarveFairness

\* C29: reader starvation is possible.  In the executions of the lock where
\* writers keep arriving (once some writer is waiting or active, some writer
\* always is), the scheduling is fair in the sense of RWFairness: every
\* thread keeps taking its steps and every thread polling the mutex gets
\* it.  Yet a thread that is inside read_lock while a writer is waiting or
\* active never leaves read_lock: it polls for ever.
C29_ReaderStarvation ==
  /\ RWFairness
  /\ [][ \A t \in Readers :
            (WritePressure /\ InReadLock(t)) => InReadLock(t)' ]_vars
  /\ \A t \in Readers :
        (WritePressure /\ InReadLock(t)) ~> (rw_pc[t] = "rl_sleep")

\* C29 witness: a reader polls inside read_lock, no reader holds the lock,
\* one writer holds the write lock and the other is registered as waiting
C29_Witness ==
  /\ BlockedReaders # {}
  /\ readers = 0
  /\ writer_active = 1
  /\ writers_waiting > 0
  /\ WritePressure

\* ------------------------------------------------------------------------
\* Observers of the bounded queue
\* ------------------------------------------------------------------------
\* no enqueue or dequeue call is in flight
QQuiet == \A t \in QThreads : q_pc[t] = "idle"

\* successful enqueues minus successful dequeues since rtl_pc_queue_init
QBalance == Len(enqOrder) - Len(deqOrder)

\* C30: observers of the bounded queue.  rtl_pc_queue_is_empty returns true
\* iff the size counter is 0, and rtl_pc_queue_is_full returns true iff the
\* size counter is at least the capacity.  When no enqueue or dequeue is in
\* flight, the size counter and the value rtl_pc_queue_size returns equal
\* the number of successful enqueues minus the number of successful
\* dequeues since init (0 right after init).  A successful dequeue hands
\* back a handle that was enqueued: the one the matching enqueue passed in.
C30_Observers ==
  /\ q_obs[1] = "is_empty" =>
       /\ q_obs[2] \in {0, 1}
       /\ q_obs[2] = 1 <=> size = 0
  /\ q_obs[1] = "is_full" =>
       /\ q_obs[2] \in {0, 1}
       /\ q_obs[2] = 1 <=> size >= capacity
  /\ QQuiet =>
       /\ size = QBalance
       /\ q_obs[1] = "size" => q_obs[2] = QBalance
  /\ (q_resp.op = "deq" /\ q_resp.ret = 1) =>
       /\ Len(deqOrder) \in 1..Len(enqOrder)
       /\ q_resp.val \in AllHandles
       /\ q_resp.val = enqOrder[Len(deqOrder)]

\* C30 witness: with no call in flight, after two enqueues and one dequeue
\* have succeeded, rtl_pc_queue_size returns 1 on a queue of capacity
\* above 1, which is then neither empty nor full
C30_Witness ==
  /\ QQuiet
  /\ Len(enqOrder) = 2
  /\ Len(deqOrder) = 1
  /\ capacity > 1
  /\ q_obs = <<"size", 1>>

\* ------------------------------------------------------------------------
\* Reader-writer lock: termination of rw_thread
\* ------------------------------------------------------------------------
\* thread t goes on with its program: it calls read_lock / write_lock while
\* it has lock / unlock pairs left to perform
RWCall(t) == read_lock_call(t) \/ write_lock_call(t)

\* The threads of test_reader_writer_pattern under fair scheduling: every
\* thread keeps running its program and the steps inside its calls, and a
\* thread that polls the mutex eventually gets it.  (The position of a
\* thread enables either its next call or its next step, never both, so
\* one weak fairness condition per thread covers the two.)
RWOnceFairness ==
  \A t \in RWThreads :
    /\ WF_vars(RWRun(t) \/ RWCall(t))
    /\ SF_vars(RWAcquire(t))

\* every thread has one lock / unlock pair to perform
RWInitOnce ==
  /\ rw_mutex = NoThread
  /\ readers = 0
  /\ writers_waiting = 0
  /\ writer_active = 0
  /\ rw_pc = [t \in RWThreads |-> "idle"]
  /\ rw_left = [t \in RWThreads |-> 1]

InitRWOnce ==
  /\ MQInit(1) /\ LFInit
  /\ RWInitOnce /\ QInit(1) /\ BInit(1)

FairSpecRWOnce == InitRWOnce /\ [][RWNext]_vars /\ RWOnceFairness

\* C31: deadlock freedom.  With finitely many reader and writer threads,
\* each performing finitely many lock / unlock pairs (here one), under fair
\* scheduling
\* eventually every thread has performed all its pairs and returned; a
\* thread gets there only by returning from each of its read_lock and
\* write_lock calls, so every such call eventually returns.
C31_DeadlockFreedom == <>RWJoined

\* C31 witness: a writer polls inside write_lock because a reader holds the
\* lock, while another reader polls inside read_lock because of that writer
C31_Witness ==
  /\ \E w \in Writers : rw_pc[w] = "wl_sleep"
  /\ readers > 0
  /\ writer_active = 0
  /\ \E r \in Readers : rw_pc[r] = "rl_sleep"

\* ------------------------------------------------------------------------
\* Mixed atomic and mutex-guarded increments
\* ------------------------------------------------------------------------
\* what test_concurrent_atomic_operations expects of the counter, and the
\* deviation it tolerates (expected_value / 100, an integer division)
WKExpected == NumMXThreads * MXIters * 2
WKTolerance == WKExpected \div 100

\* C32: when every worker has made its MXIters unguarded
\* rtl_atomic_fetch_add(counter, 1) calls and its MXIters mutex-guarded
\* load-then-store(current + 1) increments, the counter lies within 1% of
\* 2 * NumMXThreads * MXIters.
C32_MixedIncrements ==
  MXAllDone =>
    /\ at_word >= WKExpected - WKTolerance
    /\ at_word <= WKExpected + WKTolerance

\* ---------------------------------------------------------------------
\* C33: compare-exchange accounting
\* ---------------------------------------------------------------------

\* total_successful += thread_results[i], over the threads 1..n
RECURSIVE total_successful(_)
total_successful(n) ==
  IF n = 0 THEN 0 ELSE successful_updates[n] + total_successful(n - 1)

\* C33: when every race_condition_thread has returned, the shared value,
\* which started at 0 and was changed only by compare-exchange calls from a
\* freshly loaded expected to expected + 1, equals the number of
\* compare-exchange calls that returned true, whatever the interleaving.
C33_CasAccounting ==
  MXAllDone => rtl_atomic_load(at_word) = total_successful(NumMXThreads)

\* all threads have returned, an update succeeded, and some thread made none
C33_Witness ==
  /\ MXAllDone
  /\ at_word > 0
  /\ \E t \in MXThreads : successful_updates[t] = 0
  /\ \E t \in MXThreads : successful_updates[t] > 0

\* ---------------------------------------------------------------------
\* C34: ordered locking is deadlock-free
\* ---------------------------------------------------------------------

\* every complex_thread has returned
CXAllDone == \A t \in CXThreads : mx_pc[t] = "done"

\* the mutexes thread t holds
Held(t) == {m \in Mutexes : mutexes[m] = t}

\* C34: threads that take their mutexes in ascending index order and then
\* release them never deadlock: as long as some thread has not returned,
\* some thread can take a step; and under fair scheduling every thread
\* gets through all its lock / unlock sections and returns.
C34_OrderedLocking ==
  /\ [](~CXAllDone => ENABLED <<CXNext>>_vars)
  /\ <>CXAllDone

\* two threads inside their lock sections at once: one holds mutexes[0]
\* and waits for mutexes[1], which another thread holds together with
\* mutexes[2]
C34_Witness ==
  \E t, u \in CXThreads :
    /\ t # u
    /\ mx_pc[t] = "cx_lock2" /\ Held(t) = {0} /\ cx_order(t)[2] = 1
    /\ mutexes[1] = u /\ 2 \in Held(u)

\* ---------------------------------------------------------------------
\* C35: the frame of the two unlock operations
\* ---------------------------------------------------------------------

\* the step by which thread t leaves location loc
Leaves(t, loc) == rw_pc[t] = loc /\ rw_pc'[t] # loc

\* C35: a thread that holds a read lock can always run read_unlock, whoever
\* holds the mutex, and the step by which it does decreases readers by
\* exactly 1 and changes neither the mutex, writers_waiting nor
\* writer_active; a thread that holds the write lock can always run
\* write_unlock, and that step sets writer_active to 0 and changes neither
\* the mutex, readers nor writers_waiting.
C35_UnlockFrame ==
  [][\A t \in RWThreads :
       /\ rw_pc[t] = "reading" => ENABLED rtl_rw_lock_read_unlock(t)
       /\ rw_pc[t] = "writing" => ENABLED rtl_rw_lock_write_unlock(t)
       /\ Leaves(t, "reading") =>
            /\ readers' = readers - 1
            /\ UNCHANGED <<rw_mutex, writers_waiting, writer_active>>
            /\ rw_pc'[t] = "idle"
       /\ Leaves(t, "writing") =>
            /\ writer_active' = 0
            /\ UNCHANGED <<rw_mutex, readers, writers_waiting>>
            /\ rw_pc'[t] = "idle"]_vars

\* a reader and a writer have each unlocked once, and a thread holds a read
\* lock while another thread holds the mutex with a writer registered
C35_Witness ==
  /\ \E r \in Readers : rw_left[r] = OpsPerThread - 1
  /\ \E w \in Writers : rw_left[w] = OpsPerThread - 1
  /\ \E t \in RWThreads : rw_pc[t] = "reading"
  /\ rw_mutex # NoThread
  /\ writers_waiting > 0

\* ---------------------------------------------------------------------
\* C36: the indices of the bounded queue
\* ---------------------------------------------------------------------

\* the i-th slot counted from head, i = 0 for the oldest element
SlotFromHead(i) == buffer[(head + i) % capacity]

\* the values enqueued and not yet dequeued, oldest first
Pending == SubSeq(enqOrder, Len(deqOrder) + 1, Len(enqOrder))

\* C36: whenever the queue mutex is free, head and tail are indices of the
\* buffer, size is congruent to tail - head modulo capacity, head equals
\* tail exactly when the queue is empty or full, and the size slots
\* starting at head hold the values enqueued and not yet dequeued, in the
\* order they were enqueued.
C36_IndexInvariant ==
  q_mutex = NoThread =>
    /\ 0 <= head /\ head < capacity
    /\ 0 <= tail /\ tail < capacity
    /\ size % capacity = (tail - head + capacity) % capacity
    /\ (head = tail) <=> (size = 0 \/ size = capacity)
    /\ size = Len(Pending)
    /\ \A i \in 0..(size - 1) : SlotFromHead(i) = Pending[i + 1]

\* the mutex is free and the occupied slots wrap around the end of the
\* buffer: tail is below head while the queue holds an element
C36_Witness ==
  /\ q_mutex = NoThread
  /\ tail < head
  /\ size > 0

\* ---------------------------------------------------------------------
\* C37: what the three counters of the reader-writer lock count
\* ---------------------------------------------------------------------

\* threads that have incremented readers in read_lock and not yet
\* decremented it in read_unlock
Incremented == {t \in RWThreads : rw_pc[t] \in {"rl_unlock", "reading"}}

\* threads inside write_lock that have incremented writers_waiting and not
\* yet decremented it
Registered ==
  {t \in RWThreads :
     rw_pc[t] \in {"wl_load_r", "wl_load_wa", "wl_loop_unlock", "wl_sleep",
                   "wl_relock", "wl_unregister"}}

\* threads that have set writer_active in write_lock and not yet cleared it
\* in write_unlock
Activated == {t \in RWThreads : rw_pc[t] \in {"wl_unlock", "writing"}}

\* C37 as stated, for every reachable state: readers is the number of
\* threads between the return of read_lock and read_unlock, writers_waiting
\* the number of registered writers that have not acquired, writer_active
\* the number of threads between the return of write_lock and write_unlock.
C37_ReturnAccounting ==
  /\ readers = Cardinality(ReadHolders)
  /\ writers_waiting = Cardinality(Registered)
  /\ writer_active = Cardinality(WriteHolders)
  /\ readers >= 0 /\ writers_waiting >= 0

\* C37: with matched lock / unlock use, in every reachable state readers is
\* the number of threads that have incremented it in read_lock and not yet
\* called read_unlock, writers_waiting the number of threads inside
\* write_lock that have registered and not yet acquired, and writer_active
\* the number of threads that have set it in write_lock and not yet called
\* write_unlock; whenever the mutex is free these are the threads between
\* the return of read_lock (write_lock) and read_unlock (write_unlock).
\* So readers >= 0 and writers_waiting >= 0 always.
C37_CounterAccounting ==
  /\ readers = Cardinality(Incremented)
  /\ writers_waiting = Cardinality(Registered)
  /\ writer_active = Cardinality(Activated)
  /\ rw_mutex = NoThread =>
       /\ readers = Cardinality(ReadHolders)
       /\ writer_active = Cardinality(WriteHolders)
  /\ readers >= 0 /\ writers_waiting >= 0

\* a thread has incremented readers and still holds the mutex inside
\* read_lock, while another thread holds a read lock
C37_Witness ==
  /\ \E t \in RWThreads : rw_pc[t] = "rl_unlock"
  /\ ReadHolders # {}

\* ---------------------------------------------------------------------
\* C38: what count counts
\* ---------------------------------------------------------------------

\* positions inside rtl_barrier_wait after the generation was captured
BCaptured ==
  {"bw_inc", "bw_check", "bw_reset", "bw_gen_inc", "bw_loop",
   "bw_loop_unlock", "bw_sleep", "bw_relock", "bw_unlock"}

\* threads inside rtl_barrier_wait whose captured generation is g
CapturedIn(g) ==
  {t \in BThreads : b_pc[t] \in BCaptured /\ b_gen[t] = g}

\* C38: whenever the barrier mutex is free, count is the number of threads
\* inside rtl_barrier_wait whose captured generation is the current one;
\* a thread still inside with an older captured generation has been
\* released (its loop test fails the next time it runs) and is not counted.
C38_ArrivalAccounting ==
  b_mutex = NoThread =>
    /\ count = Cardinality(CapturedIn(generation))
    /\ \A t \in BThreads :
         b_pc[t] \in BCaptured => b_gen[t] <= generation

\* the mutex is free, a thread of the previous generation has not yet left
\* its loop, and a thread has already arrived for the current generation
C38_Witness ==
  /\ b_mutex = NoThread
  /\ count > 0
  /\ \E t \in BThreads : b_pc[t] \in BCaptured /\ b_gen[t] < generation

\* ---------------------------------------------------------------------
\* C39: one release per trip
\* ---------------------------------------------------------------------

\* positions of a thread that did not trip the barrier and polls generation
BPolling == {"bw_loop", "bw_loop_unlock", "bw_sleep", "bw_relock"}

\* C39: a thread that arrived in generation g and did not trip the barrier
\* leaves its loop, and returns, only when generation is past g; every
\* generation that has ended had exactly expected_count arrivals, the
\* current one fewer unless it is being tripped, later ones none; and a
\* thread that captured the current generation is never let out of its
\* loop, whatever trips ended the generations before.
C39_OneReleasePerTrip ==
  /\ [][\A t \in BThreads :
          /\ (b_pc[t] \in BPolling /\ b_pc'[t] = "bw_unlock") =>
                (b_gen[t] < generation /\ arrivals[b_gen[t]] = expected_count)
          /\ (b_pc[t] = "bw_unlock" /\ b_pc'[t] = "idle") =>
                b_gen[t] < generation
          /\ (b_pc[t] \in BPolling /\ b_gen[t] = generation) =>
                b_pc'[t] \in BPolling
       ]_vars
  /\ [](\A g \in DOMAIN arrivals :
          /\ g < generation => arrivals[g] = expected_count
          /\ g > generation => arrivals[g] = 0
          /\ (g = generation /\ arrivals[g] = expected_count) =>
                \E t \in BThreads :
                  b_mutex = t /\ b_pc[t] \in {"bw_inc", "bw_check",
                                              "bw_reset", "bw_gen_inc"})

\* a waiter of the generation that just ended is about to return while a
\* thread that has arrived for the next generation stays in its loop
C39_Witness ==
  \E t, u \in BThreads :
    /\ b_pc[u] = "bw_unlock" /\ b_mutex = u
    /\ b_gen[u] = generation - 1
    /\ count > 0
    /\ b_pc[t] \in BPolling /\ b_gen[t] = generation

\* ---------------------------------------------------------------------
\* C40: rtl_atomic_load does not write
\* ---------------------------------------------------------------------

\* the calls that are meant to change the word
ATModifying ==
  {"fetch_add", "fetch_sub", "compare_exchange", "compare_exchange_bool"}

\* C40: among concurrent fetch_add, fetch_sub and compare-exchange calls, a
\* call of rtl_atomic_load returns the value the word held and leaves the
\* word as it was, for every value including 0; the word changes only in
\* the steps of the modifying calls, so each of them finds in the word the
\* initial value or a value a modifying call stored.
C40_LoadIsReadOnly ==
  /\ [](at_last.op = "load" =>
          /\ at_last.ret = at_last.old
          /\ at_last.ret = rtl_atomic_load(at_last.old)
          /\ at_word = at_last.old)
  /\ [][ /\ at_last'.op = "load" => at_word' = at_word
         /\ at_word' # at_word =>
              /\ at_last'.op \in ATModifying
              /\ at_last'.old = at_word
       ]_vars

\* a load has just returned 0 from a word that an earlier call of another
\* thread had brought back to 0 from the non-zero value it started with
C40_Witness ==
  /\ at_last.op = "load"
  /\ at_last.old = 0
  /\ at_word = 0
  /\ at_init # 0
  /\ \E t \in ATThreads : at_left[t] = ATCalls

====
